---- MODULE Spec2Model ----
(***************************************************************************)
(* A model of the tav task engine: the requirement evaluator, the          *)
(* completion-effect merge, addTask and the looping tickTask, for one tav. *)
(* JavaScript objects are functions whose DOMAIN is the set of keys that   *)
(* are present; a missing key is a key outside the DOMAIN.                 *)
(***************************************************************************)
EXTENDS Integers, Sequences, FiniteSets, TLC

(***************************************************************************)
(* Bounds of the model.                                                    *)
(***************************************************************************)
MaxTime == 3
MaxXp == 2
MaxTicks == 2

(***************************************************************************)
(* Program constants.                                                      *)
(***************************************************************************)
Null == -1
TASK_TARGETLESS_KEY == "null"
MAX_LOOP_LIMIT == 2

Times == 0..MaxTime

Get(obj, key, default) == IF key \in DOMAIN obj THEN obj[key] ELSE default

Spread(a, b) ==
  [k \in (DOMAIN a) \cup (DOMAIN b) |-> IF k \in DOMAIN b THEN b[k] ELSE a[k]]

Put(obj, key, value) ==
  [k \in (DOMAIN obj) \cup {key} |-> IF k = key THEN value ELSE obj[k]]

EmptyObject == [k \in {} |-> 0]

(***************************************************************************)
(* The definition registry: skills, targets and level thresholds.          *)
(***************************************************************************)
DEFAULT_TAV_ABILITY_SCORES ==
  [str |-> 10, dex |-> 10, con |-> 10, int |-> 10, wis |-> 10, cha |-> 10]

SKILL_DEFINITIONS ==
  << [id |-> "logging", priority |-> 5, duration |-> 1,
      targetIds |-> {"small_tree"},
      addRequirements |-> << >>,
      executeRequirements |->
        << [op |-> "ability_min", ability |-> "str", value |-> 10],
           [op |-> "flag_present", flagId |-> "forest_access"] >>,
      completionEffect |-> EmptyObject],
     [id |-> "wood_craft", priority |-> 6, duration |-> 1,
      targetIds |-> {"plank"},
      addRequirements |->
        << [op |-> "skill_level_min", skillId |-> "logging", level |-> 2] >>,
      executeRequirements |->
        << [op |-> "item_required", itemId |-> "log", quantity |-> 2] >>,
      completionEffect |->
        [skillXp |-> 1,
         targetOverrides |-> [plank |-> [inventory |-> << << "plank", 1 >> >>]]]],
     [id |-> "idle", priority |-> 5, duration |-> 2,
      targetIds |-> {TASK_TARGETLESS_KEY},
      addRequirements |-> << >>,
      executeRequirements |->
        << [op |-> "or", requirements |->
              << [op |-> "skill_level_min", skillId |-> "logging", level |-> 2],
                 [op |-> "custom", name |-> "idle_allowed"] >>] >>,
      completionEffect |-> [skillXp |-> -1]] >>

TARGET_DEFINITIONS ==
  << [id |-> "small_tree",
      addRequirements |->
        << [op |-> "flag_present", flagId |-> "forest_access"] >>,
      executeRequirements |-> << >>,
      skills |-> {"logging"},
      completionEffect |->
        [tavXp |-> 1, skillXp |-> 1, inventory |-> << << "log", 1 >> >>]],
     [id |-> "plank",
      addRequirements |-> << >>,
      executeRequirements |->
        << [op |-> "tav_level_min", level |-> 2] >>,
      skills |-> {"wood_craft"},
      completionEffect |-> [inventory |-> << << "log", -2 >> >>]] >>

TAV_LEVEL_THRESHOLDS == << 0, 2 >>
SKILL_LEVEL_THRESHOLDS == << 0, 2 >>

computeLevel(xp, thresholds) ==
  LET n == Cardinality({i \in DOMAIN thresholds : thresholds[i] <= xp})
  IN  IF n < 1 THEN 1 ELSE n

getSkillDefinition(skillId) ==
  IF \E i \in DOMAIN SKILL_DEFINITIONS : SKILL_DEFINITIONS[i].id = skillId
  THEN SKILL_DEFINITIONS[CHOOSE i \in DOMAIN SKILL_DEFINITIONS :
                           SKILL_DEFINITIONS[i].id = skillId]
  ELSE EmptyObject

getTargetDefinition(targetId) ==
  IF \E i \in DOMAIN TARGET_DEFINITIONS : TARGET_DEFINITIONS[i].id = targetId
  THEN TARGET_DEFINITIONS[CHOOSE i \in DOMAIN TARGET_DEFINITIONS :
                            TARGET_DEFINITIONS[i].id = targetId]
  ELSE EmptyObject

Known(definition) == DOMAIN definition # {}

(***************************************************************************)
(* The requirement evaluator.                                              *)
(***************************************************************************)
readInventory(inventory, itemId) == Get(inventory, itemId, 0)

hasInIterable(ctx, value) ==
  IF "flags" \in DOMAIN ctx THEN value \in ctx.flags ELSE FALSE

\* An entry of customChecks is a boolean or a predicate on the context; the
\* predicates of the model test one flag of the context they are given.
BooleanCheck(value) == [kind |-> "boolean", value |-> value]
FlagPredicate(flagId) == [kind |-> "function", flagId |-> flagId]

callHandler(handler, context) == hasInIterable(context, handler.flagId)

\* The custom case asking the fallback resolver before the override map.
evaluateCustomResolverFirst(name, context) ==
  LET checks == Get(context, "customChecks", EmptyObject)
      resolver == Get(context, "resolveCustom", EmptyObject)
  IN  IF name \in DOMAIN resolver THEN resolver[name]
      ELSE IF name \notin DOMAIN checks THEN FALSE
      ELSE IF checks[name].kind = "function"
      THEN callHandler(checks[name], context)
      ELSE checks[name].value

\* resolveCustom is a partial map from names to booleans: a name outside its
\* domain is one for which the resolver returns undefined.
evaluateCustom(name, context) ==
  LET checks == Get(context, "customChecks", EmptyObject)
  IN  IF name \in DOMAIN checks /\ checks[name].kind = "function"
      THEN callHandler(checks[name], context)
      ELSE IF name \in DOMAIN checks /\ checks[name].kind = "boolean"
      THEN checks[name].value
      ELSE Get(Get(context, "resolveCustom", EmptyObject), name, FALSE)

\* Array.prototype.some accepting the empty array.
someOrEmpty(results) == results = << >> \/ \E j \in DOMAIN results : results[j]

some(results) == \E j \in DOMAIN results : results[j]

RECURSIVE evaluateRequirements(_, _)
evaluateRequirements(requirements, context) ==
  IF Len(requirements) = 0 THEN TRUE
  ELSE \A i \in DOMAIN requirements :
    LET requirement == requirements[i] IN
    CASE requirement.op = "ability_min" ->
           Get(Get(context, "abilities", EmptyObject), requirement.ability, 0)
             >= requirement.value
      [] requirement.op = "skill_level_min" ->
           Get(Get(context, "skillLevels", EmptyObject), requirement.skillId, 0)
             >= requirement.level
      [] requirement.op = "tav_level_min" ->
           Get(context, "tavLevel", 1) >= requirement.level
      [] requirement.op = "item_required" ->
           readInventory(Get(context, "inventory", EmptyObject), requirement.itemId)
             >= requirement.quantity
      [] requirement.op = "flag_present" ->
           hasInIterable(context, requirement.flagId)
      [] requirement.op = "custom" ->
           evaluateCustom(requirement.name, context)
      [] requirement.op = "and" ->
           evaluateRequirements(requirement.requirements, context)
      [] requirement.op = "or" ->
           some([j \in DOMAIN requirement.requirements |->
                   evaluateRequirements(<< requirement.requirements[j] >>,
                                        context)])
      [] requirement.op = "not" ->
           ~ evaluateRequirements(<< requirement.requirement >>, context)

(***************************************************************************)
(* Ordered maps (a JavaScript object read with Object.entries): a sequence *)
(* of << key, value >> pairs in insertion order.                           *)
(***************************************************************************)
EntryKeys(entries) == {entries[i][1] : i \in DOMAIN entries}

EntryGet(entries, key, default) ==
  IF key \in EntryKeys(entries)
  THEN entries[CHOOSE i \in DOMAIN entries : entries[i][1] = key][2]
  ELSE default

EntryAdd(entries, key, delta) ==
  IF key \in EntryKeys(entries)
  THEN [i \in DOMAIN entries |->
          IF entries[i][1] = key THEN << key, entries[i][2] + delta >>
          ELSE entries[i]]
  ELSE Append(entries, << key, delta >>)

(***************************************************************************)
(* Completion effects.  The null effect is the object without keys.        *)
(***************************************************************************)
coerceEffect(effect) ==
  LET entries == SelectSeq(Get(effect, "inventory", << >>),
                           LAMBDA e : e[2] # 0)
      keys == {k \in {"tavXp", "skillXp"} : k \in DOMAIN effect}
                \cup (IF Len(entries) > 0 THEN {"inventory"} ELSE {})
  IN  [k \in keys |-> IF k = "inventory" THEN entries ELSE effect[k]]

RECURSIVE SumField(_, _)
SumField(effects, field) ==
  IF effects = << >> THEN 0
  ELSE Get(Head(effects), field, 0) + SumField(Tail(effects), field)

\* FoldEntries in which a later delta of an item replaces the earlier one.
RECURSIVE FoldEntriesLastWins(_, _)
FoldEntriesLastWins(totals, entries) ==
  IF entries = << >> THEN totals
  ELSE LET e == Head(entries) IN
       FoldEntriesLastWins(
         IF e[2] = 0 THEN totals
         ELSE EntryAdd(totals, e[1], e[2] - EntryGet(totals, e[1], 0)),
         Tail(entries))

RECURSIVE FoldEntries(_, _)
FoldEntries(totals, entries) ==
  IF entries = << >> THEN totals
  ELSE LET e == Head(entries) IN
       FoldEntries(IF e[2] = 0 THEN totals ELSE EntryAdd(totals, e[1], e[2]),
                   Tail(entries))

RECURSIVE FoldInventories(_, _)
FoldInventories(totals, effects) ==
  IF effects = << >> THEN totals
  ELSE FoldInventories(
         FoldEntries(totals, Get(Head(effects), "inventory", << >>)),
         Tail(effects))

\* mergeCompletionEffects keeping every field and item it saw, zero or not.
mergeCompletionEffectsKeepingZeros(effects) ==
  LET sawInventory == \E i \in DOMAIN effects : "inventory" \in DOMAIN effects[i]
      keys == {k \in {"tavXp", "skillXp"} :
                 \E i \in DOMAIN effects : k \in DOMAIN effects[i]}
                \cup (IF sawInventory THEN {"inventory"} ELSE {})
  IN  [k \in keys |-> IF k = "inventory" THEN FoldInventories(<< >>, effects)
                      ELSE SumField(effects, k)]

mergeCompletionEffects(effects) ==
  LET tavXpTotal == SumField(effects, "tavXp")
      skillXpTotal == SumField(effects, "skillXp")
      sawTavXp == \E i \in DOMAIN effects : "tavXp" \in DOMAIN effects[i]
      sawSkillXp == \E i \in DOMAIN effects : "skillXp" \in DOMAIN effects[i]
      sawInventory == \E i \in DOMAIN effects : "inventory" \in DOMAIN effects[i]
      cleaned == SelectSeq(FoldInventories(<< >>, effects), LAMBDA e : e[2] # 0)
      keys == (IF sawTavXp /\ tavXpTotal # 0 THEN {"tavXp"} ELSE {})
                \cup (IF sawSkillXp /\ skillXpTotal # 0 THEN {"skillXp"} ELSE {})
                \cup (IF sawInventory /\ Len(cleaned) > 0 THEN {"inventory"} ELSE {})
  IN  [k \in keys |-> CASE k = "tavXp" -> tavXpTotal
                        [] k = "skillXp" -> skillXpTotal
                        [] k = "inventory" -> cleaned]

resolveCompletionEffect(skillId, targetId) ==
  LET skillDefinition == getSkillDefinition(skillId)
      targetDefinition == getTargetDefinition(targetId)
      base == Get(skillDefinition, "completionEffect", EmptyObject)
  IN  mergeCompletionEffects(
        << coerceEffect(base),
           coerceEffect(Get(Get(base, "targetOverrides", EmptyObject),
                            targetId, EmptyObject)),
           coerceEffect(Get(targetDefinition, "completionEffect", EmptyObject)) >>)

(***************************************************************************)
(* The inventory stack manager: the stored inventory is a function from    *)
(* the occupied slots to [itemId, qty].                                    *)
(***************************************************************************)
ITEM_DEFINITIONS ==
  << [id |-> "log", stackLimit |-> 2], [id |-> "plank", stackLimit |-> 2] >>

KnownItem(itemId) ==
  \E i \in DOMAIN ITEM_DEFINITIONS : ITEM_DEFINITIONS[i].id = itemId

getStackLimitSafe(itemId) ==
  ITEM_DEFINITIONS[CHOOSE i \in DOMAIN ITEM_DEFINITIONS :
                     ITEM_DEFINITIONS[i].id = itemId].stackLimit

Min2(a, b) == IF a <= b THEN a ELSE b
SetMin(S) == CHOOSE x \in S : \A y \in S : x <= y
SetMax(S) == CHOOSE x \in S : \A y \in S : x >= y

Remove(obj, key) == [k \in (DOMAIN obj) \ {key} |-> obj[k]]

RECURSIVE SumQty(_, _)
SumQty(inv, slots) ==
  IF slots = {} THEN 0
  ELSE LET s == CHOOSE x \in slots : TRUE
       IN  inv[s].qty + SumQty(inv, slots \ {s})

ItemSlots(inv, itemId) == {s \in DOMAIN inv : inv[s].itemId = itemId}

getInventoryTotals(inv) ==
  [itemId \in {inv[s].itemId : s \in DOMAIN inv} |->
     SumQty(inv, ItemSlots(inv, itemId))]

nextFreeSlot(occupied) ==
  CHOOSE s \in 0..Cardinality(occupied) :
    s \notin occupied /\ \A t \in 0..(s - 1) : t \in occupied

\* TopUp visiting the stacks from the highest slot down.
RECURSIVE TopUpDescending(_, _, _, _)
TopUpDescending(inv, slots, stackLimit, remaining) ==
  IF slots = {} \/ remaining <= 0 THEN [inv |-> inv, remaining |-> remaining]
  ELSE LET s == SetMax(slots)
           add == Min2(stackLimit - inv[s].qty, remaining)
       IN  IF add <= 0
           THEN TopUpDescending(inv, slots \ {s}, stackLimit, remaining)
           ELSE TopUpDescending([inv EXCEPT ![s].qty = @ + add], slots \ {s},
                                stackLimit, remaining - add)

RECURSIVE TopUp(_, _, _, _)
TopUp(inv, slots, stackLimit, remaining) ==
  IF slots = {} \/ remaining <= 0 THEN [inv |-> inv, remaining |-> remaining]
  ELSE LET s == SetMin(slots)
           capacity == stackLimit - inv[s].qty
           add == Min2(capacity, remaining)
       IN  IF capacity <= 0
           THEN TopUp(inv, slots \ {s}, stackLimit, remaining)
           ELSE TopUp([inv EXCEPT ![s].qty = @ + add], slots \ {s},
                      stackLimit, remaining - add)

\* OpenStacks putting everything that remains into one new stack.
OpenStacksSingle(inv, itemId, stackLimit, remaining) ==
  IF remaining <= 0 THEN inv
  ELSE Put(inv, nextFreeSlot(DOMAIN inv), [itemId |-> itemId, qty |-> remaining])

RECURSIVE OpenStacks(_, _, _, _)
OpenStacks(inv, itemId, stackLimit, remaining) ==
  IF remaining <= 0 THEN inv
  ELSE LET chunk == Min2(stackLimit, remaining)
           slot == nextFreeSlot(DOMAIN inv)
       IN  OpenStacks(Put(inv, slot, [itemId |-> itemId, qty |-> chunk]),
                      itemId, stackLimit, remaining - chunk)

\* Drain visiting the stacks from the lowest slot up.
RECURSIVE DrainAscending(_, _, _)
DrainAscending(inv, slots, remaining) ==
  IF slots = {} \/ remaining <= 0 THEN [inv |-> inv, remaining |-> remaining]
  ELSE LET s == SetMin(slots)
           remove == Min2(inv[s].qty, remaining)
       IN  DrainAscending(IF inv[s].qty - remove > 0
                          THEN [inv EXCEPT ![s].qty = @ - remove]
                          ELSE Remove(inv, s),
                          slots \ {s}, remaining - remove)

\* Drain taking from the highest stack only and reporting nothing left over.
DrainTopOnly(inv, slots, remaining) ==
  IF slots = {} \/ remaining <= 0 THEN [inv |-> inv, remaining |-> remaining]
  ELSE LET s == SetMax(slots)
           newQty == inv[s].qty - Min2(inv[s].qty, remaining)
       IN  [inv |-> IF newQty > 0 THEN [inv EXCEPT ![s].qty = newQty]
                    ELSE Remove(inv, s),
            remaining |-> 0]

RECURSIVE Drain(_, _, _)
Drain(inv, slots, remaining) ==
  IF slots = {} \/ remaining <= 0 THEN [inv |-> inv, remaining |-> remaining]
  ELSE LET s == SetMax(slots)
           remove == Min2(inv[s].qty, remaining)
           newQty == inv[s].qty - remove
       IN  Drain(IF newQty > 0 THEN [inv EXCEPT ![s].qty = newQty]
                 ELSE Remove(inv, s),
                 slots \ {s}, remaining - remove)

RECURSIVE StrictCheck(_, _)
StrictCheck(totals, entries) ==
  IF entries = << >> THEN TRUE
  ELSE LET itemId == Head(entries)[1]
           c == Head(entries)[2]
       IN  IF c < 0 /\ Get(totals, itemId, 0) + c < 0 THEN FALSE
           ELSE StrictCheck(Put(totals, itemId, Get(totals, itemId, 0) + c),
                            Tail(entries))

RECURSIVE ApplyEntries(_, _, _)
ApplyEntries(inv, entries, strict) ==
  IF entries = << >> THEN [ok |-> TRUE, inv |-> inv]
  ELSE LET itemId == Head(entries)[1]
           change == Head(entries)[2]
       IN  IF ~ KnownItem(itemId)
           THEN [ok |-> FALSE, inv |-> inv, error |-> "Unknown item"]
           ELSE LET stackLimit == getStackLimitSafe(itemId)
                    slots == ItemSlots(inv, itemId)
                IN  IF change > 0
                    THEN LET topped == TopUp(inv, slots, stackLimit, change)
                         IN  ApplyEntries(
                               OpenStacks(topped.inv, itemId, stackLimit,
                                          topped.remaining),
                               Tail(entries), strict)
                    ELSE LET drained == Drain(inv, slots, 0 - change)
                         IN  IF drained.remaining > 0 /\ strict
                             THEN [ok |-> FALSE, inv |-> inv,
                                   error |-> "Insufficient quantity"]
                             ELSE ApplyEntries(drained.inv, Tail(entries), strict)

\* applyInventoryDelta renumbering the stacks 0 .. n-1 once the batch is in.
applyInventoryDeltaCompacting(inv, deltas, strict) ==
  LET entries == SelectSeq(deltas, LAMBDA e : e[2] # 0)
      applied == ApplyEntries(inv, entries, strict)
      slots == DOMAIN applied.inv
      rank(s) == Cardinality({t \in slots : t < s})
  IN  IF ~ applied.ok
      THEN [ok |-> FALSE, inv |-> inv, error |-> applied.error]
      ELSE [ok |-> TRUE,
            inv |-> [k \in 0..(Cardinality(slots) - 1) |->
                       applied.inv[CHOOSE s \in slots : rank(s) = k]]]

\* applyInventoryDelta without the strict mode: an underflow is clamped.
applyInventoryDeltaClamping(inv, deltas, strict) ==
  LET applied == ApplyEntries(inv, SelectSeq(deltas, LAMBDA e : e[2] # 0),
                              FALSE)
  IN  IF applied.ok THEN applied
      ELSE [ok |-> FALSE, inv |-> inv, error |-> applied.error]

applyInventoryDelta(inv, deltas, strict) ==
  LET entries == SelectSeq(deltas, LAMBDA e : e[2] # 0)
  IN  IF Len(entries) = 0 THEN [ok |-> TRUE, inv |-> inv]
      ELSE IF strict /\ ~ StrictCheck(getInventoryTotals(inv), entries)
      THEN [ok |-> FALSE, inv |-> inv, error |-> "Insufficient quantity"]
      ELSE LET applied == ApplyEntries(inv, entries, strict)
           IN  IF applied.ok THEN applied
               ELSE [ok |-> FALSE, inv |-> inv, error |-> applied.error]

(***************************************************************************)
(* State.  The stored rows of the one tav, the context object the caller   *)
(* holds, and the call in flight: its position, arguments, local variables *)
(* and result.  peer is a second tick call of another client of the same   *)
(* database, for the same tav.                                             *)
(***************************************************************************)
VARIABLES tavXp, tavFlags, updatedAt, skills, tasks, inventory,
          callerCtx, pc, args, mem, result, outcome, ticks, peer

vars == << tavXp, tavFlags, updatedAt, skills, tasks, inventory,
           callerCtx, pc, args, mem, result, outcome, ticks, peer >>

dbVars == << tavXp, tavFlags, updatedAt, skills, tasks, inventory >>

taskKey(skillId, targetId) == << skillId, targetId >>

emptyResult == [started |-> << >>, completed |-> << >>, failed |-> << >>]

NoMem == EmptyObject
NoArgs == [op |-> "none"]
NoContext == EmptyObject
NoCall == [pc |-> "idle"]

TaskRow(status, createdAt, startedAt, priority) ==
  [status |-> status, createdAt |-> createdAt, startedAt |-> startedAt,
   endedAt |-> Null, priority |-> priority]

(***************************************************************************)
(* Rows persisted before the registry took its present form: a task of a   *)
(* skill the registry no longer knows, or of a target its skill no longer  *)
(* allows.                                                                 *)
(***************************************************************************)
DEFAULT_PRIORITY == 5

LegacyTasks ==
  { EmptyObject,
    [k \in {taskKey("ghost", TASK_TARGETLESS_KEY)} |->
       TaskRow("executing", 0, 0, DEFAULT_PRIORITY)],
    [k \in {taskKey("ghost", TASK_TARGETLESS_KEY), taskKey("wood_craft", "plank")} |->
       IF k[2] = "plank" THEN TaskRow("failed", 0, 0, DEFAULT_PRIORITY)
       ELSE TaskRow("pending", 0, Null, DEFAULT_PRIORITY)],
    [k \in {taskKey("logging", "plank")} |->
       TaskRow("pending", 0, Null, DEFAULT_PRIORITY)] }

ContextChoices ==
  { EmptyObject,
    [flags |-> {"scout_ready"}, customChecks |-> [idle_allowed |-> BooleanCheck(TRUE)]],
    [inventory |-> [log |-> 2]],
    [inventory |-> [log |-> 2], tavLevel |-> 2],
    [skillLevels |-> [logging |-> 2]] }

Init ==
  /\ tavXp = 0
  /\ tavFlags \in {{}, {"forest_access"}}
  /\ updatedAt = 0
  /\ tasks \in LegacyTasks
  /\ skills = [id \in {k[1] : k \in DOMAIN tasks} |-> 0]
  /\ inventory = EmptyObject
  /\ callerCtx = NoContext
  /\ pc = "idle"
  /\ args = NoArgs
  /\ mem = NoMem
  /\ result = emptyResult
  /\ outcome = "none"
  /\ ticks = 0
  /\ peer = NoCall

(***************************************************************************)
(* Requirement contexts.                                                   *)
(***************************************************************************)
buildRequirementContext ==
  [abilities |-> DEFAULT_TAV_ABILITY_SCORES,
   tavLevel |-> computeLevel(tavXp, TAV_LEVEL_THRESHOLDS),
   skillLevels |->
     [id \in DOMAIN skills |-> computeLevel(skills[id], SKILL_LEVEL_THRESHOLDS)],
   inventory |-> getInventoryTotals(inventory),
   flags |-> tavFlags]

mergeInventory(base, override, subtractInventory) ==
  LET sign == IF subtractInventory THEN -1 ELSE 1
  IN  [k \in (DOMAIN base) \cup (DOMAIN override) |->
         Get(base, k, 0) + sign * Get(override, k, 0)]

mergeIterables(base, override) == base \cup override

mergeRequirementContexts(base, override) ==
  IF DOMAIN override = {} THEN base
  ELSE LET inv == IF "inventory" \in DOMAIN override
                  THEN mergeInventory(Get(base, "inventory", EmptyObject),
                                      override.inventory, FALSE)
                  ELSE Get(base, "inventory", EmptyObject)
           flags == mergeIterables(Get(base, "flags", {}),
                                   Get(override, "flags", {}))
           keys == {"abilities", "skillLevels"}
                     \cup (IF "inventory" \in DOMAIN override /\ DOMAIN inv = {}
                           THEN {} ELSE {"inventory"})
                     \cup (IF flags = {} THEN {} ELSE {"flags"})
                     \cup (IF "customChecks" \in (DOMAIN base) \cup (DOMAIN override)
                           THEN {"customChecks"} ELSE {})
       IN  [k \in keys |->
              CASE k = "abilities" ->
                     Spread(base.abilities, Get(override, "abilities", EmptyObject))
                [] k = "skillLevels" ->
                     Spread(base.skillLevels, Get(override, "skillLevels", EmptyObject))
                [] k = "inventory" -> inv
                [] k = "flags" -> flags
                [] k = "customChecks" ->
                     Spread(Get(base, "customChecks", EmptyObject),
                            Get(override, "customChecks", EmptyObject))]

(***************************************************************************)
(* addTask                                                                 *)
(***************************************************************************)
validatePriority(priority) == priority >= 1 /\ priority <= 9

MaxCreatedAt == 1

CreatedAtChoices ==
  {t \in 0..MaxCreatedAt : \A k \in DOMAIN tasks : tasks[k].createdAt <= t}

AddTaskError(skillId, targetId, inputContext) ==
  LET skillDefinition == getSkillDefinition(skillId)
      targetDefinition == getTargetDefinition(targetId)
      context == mergeRequirementContexts(buildRequirementContext, inputContext)
  IN  IF ~ Known(skillDefinition) THEN "Unknown skill id"
      ELSE IF targetId \notin skillDefinition.targetIds THEN "cannot target id"
      ELSE IF ~ evaluateRequirements(skillDefinition.addRequirements, context)
      THEN "skill requirements not met"
      ELSE IF targetId # TASK_TARGETLESS_KEY /\ ~ Known(targetDefinition)
      THEN "Unknown skill target id"
      ELSE IF /\ targetId # TASK_TARGETLESS_KEY
              /\ targetDefinition.skills # {}
              /\ skillId \notin targetDefinition.skills
      THEN "cannot target id"
      ELSE IF ~ evaluateRequirements(
                  Get(targetDefinition, "addRequirements", << >>), context)
      THEN "target requirements not met"
      ELSE "none"

AddTask(skillId, targetId, priority, context) ==
  LET error == AddTaskError(skillId, targetId, context)
      key == taskKey(skillId, targetId)
      withSkill == IF skillId \in DOMAIN skills THEN skills
                   ELSE Put(skills, skillId, 0)
  IN  /\ pc \in {"idle", "done"}
      /\ ticks < MaxTicks
      /\ args' = [op |-> "addTask"]
      /\ pc' = "done"
      /\ mem' = NoMem
      /\ result' = emptyResult
      /\ callerCtx' = NoContext
      /\ UNCHANGED << tavXp, tavFlags, updatedAt, inventory, ticks, peer >>
      /\ IF error # "none"
         THEN /\ outcome' = error
              /\ UNCHANGED << skills, tasks >>
         ELSE /\ skills' = withSkill
              /\ IF priority # Null /\ ~ validatePriority(priority)
                 THEN /\ outcome' = "Task priority must be between 1 and 9"
                      /\ UNCHANGED tasks
                 ELSE IF key \in DOMAIN tasks
                 THEN /\ outcome' = "duplicate key"
                      /\ UNCHANGED tasks
                 ELSE /\ outcome' = "returned"
                      /\ \E createdAt \in CreatedAtChoices :
                           tasks' = Put(tasks, key,
                                        TaskRow("pending", createdAt, Null,
                                                IF priority = Null
                                                THEN DEFAULT_PRIORITY
                                                ELSE priority))

(***************************************************************************)
(* tickTask: load the snapshot, iterate, commit.                           *)
(***************************************************************************)
cursorStart(lastTickAt, now) ==
  IF lastTickAt # Null THEN lastTickAt
  ELSE IF updatedAt # Null THEN updatedAt ELSE now

TickLoad(now, lastTickAt, context) ==
  /\ pc \in {"idle", "done"}
  /\ tavXp <= MaxXp
  /\ ticks < MaxTicks
  /\ ticks' = ticks + 1
  /\ pc' = "loop"
  /\ args' = [op |-> "tick", now |-> now, lastTickAt |-> lastTickAt,
               context |-> context,
               repeat |-> /\ pc = "done"
                          /\ args.op = "tick"
                          /\ outcome = "returned"
                          /\ args.now = now
                          /\ args.lastTickAt = lastTickAt
                          /\ context \in {args.context, callerCtx}]
  /\ mem' = [tasks |-> tasks,
             requirementContext |-> Spread(buildRequirementContext, context),
             cursor |-> cursorStart(lastTickAt, now),
             tavXpDelta |-> 0,
             skillXpDelta |-> EmptyObject,
             inventoryDelta |-> << >>,
             virtualTavXp |-> tavXp,
             virtualSkillXp |-> skills,
             loopCount |-> 0]
  /\ result' = emptyResult
  /\ outcome' = "running"
  /\ callerCtx' = context
  /\ UNCHANGED << dbVars, peer >>

\* LoopCondition as it would read without the iteration cap.
LoopConditionUncapped == mem.cursor <= args.now

LoopCondition == mem.cursor <= args.now /\ mem.loopCount < MAX_LOOP_LIMIT

WithStatus(rows, status) == {k \in DOMAIN rows : rows[k].status = status}

Executing == WithStatus(mem.tasks, "executing")

\* The caller's context object shares its inventory and skillLevels objects
\* with the requirement context built from it.
Aliased(context, requirementContext) ==
  [k \in DOMAIN context |->
     IF k \in {"inventory", "skillLevels"} THEN requirementContext[k]
     ELSE context[k]]

Throw(message) ==
  /\ pc' = "done"
  /\ outcome' = message
  /\ mem' = NoMem
  /\ UNCHANGED << dbVars, args, result, callerCtx, ticks, peer >>

Break ==
  /\ pc' = "commit"
  /\ UNCHANGED << dbVars, args, mem, result, outcome, callerCtx, ticks, peer >>

TickLoopExit ==
  /\ pc = "loop"
  /\ ~ LoopCondition
  /\ Break

TickExecutingThrows ==
  /\ pc = "loop"
  /\ LoopCondition
  /\ \E key \in Executing :
       IF ~ Known(getSkillDefinition(key[1]))
       THEN Throw("skill not found")
       ELSE /\ mem.tasks[key].startedAt = Null
            /\ Throw("startedAt is not set for task")

\* deadlineOf as the single-pass tick computes it: from the window's start.
deadlineFromCursor(rows, key) ==
  mem.cursor + getSkillDefinition(key[1]).duration

deadlineOf(rows, key) ==
  rows[key].startedAt + getSkillDefinition(key[1]).duration

TickTimeExhausted ==
  /\ pc = "loop"
  /\ LoopCondition
  /\ \E key \in Executing :
       /\ Known(getSkillDefinition(key[1]))
       /\ mem.tasks[key].startedAt # Null
       /\ args.now < deadlineOf(mem.tasks, key)
  /\ Break

\* addToInventoryContext assigning the delta instead of adding it.
addToInventoryContextOverwrite(inv, itemId, delta) == Put(inv, itemId, delta)

addToInventoryContext(inv, itemId, delta) ==
  Put(inv, itemId, Get(inv, itemId, 0) + delta)

RECURSIVE FoldInventoryContext(_, _)
FoldInventoryContext(inv, entries) ==
  IF entries = << >> THEN inv
  ELSE FoldInventoryContext(
         addToInventoryContext(inv, Head(entries)[1], Head(entries)[2]),
         Tail(entries))

\* The accumulated inventory delta recording the first completion only.
FoldInventoryDeltaFirstOnly(deltas, entries) ==
  IF deltas = << >> THEN FoldEntries(<< >>, entries) ELSE deltas

RECURSIVE FoldInventoryDelta(_, _)
FoldInventoryDelta(deltas, entries) ==
  IF entries = << >> THEN deltas
  ELSE FoldInventoryDelta(
         EntryAdd(deltas, Head(entries)[1], Head(entries)[2]),
         Tail(entries))

\* Completed moving the cursor but leaving the task executing.
CompletedStillExecuting(m, key) ==
  [m EXCEPT !.cursor = deadlineOf(m.tasks, key), !.loopCount = @ + 1]

Completed(m, key) ==
  LET skillId == key[1]
      effect == resolveCompletionEffect(skillId, key[2])
      effectTavXp == Get(effect, "tavXp", 0)
      effectSkillXp == Get(effect, "skillXp", 0)
      entries == Get(effect, "inventory", << >>)
      virtualTavXp == m.virtualTavXp + effectTavXp
      virtualSkillXp ==
        IF effectSkillXp # 0
        THEN Put(m.virtualSkillXp, skillId,
                 Get(m.virtualSkillXp, skillId, 0) + effectSkillXp)
        ELSE m.virtualSkillXp
      ctx0 == m.requirementContext
      ctx1 == IF effectTavXp # 0
              THEN Put(ctx0, "tavLevel",
                       computeLevel(virtualTavXp, TAV_LEVEL_THRESHOLDS))
              ELSE ctx0
      ctx2 == IF effectSkillXp # 0
              THEN Put(ctx1, "skillLevels",
                       Put(ctx1.skillLevels, skillId,
                           computeLevel(virtualSkillXp[skillId],
                                        SKILL_LEVEL_THRESHOLDS)))
              ELSE ctx1
      ctx3 == IF Len(entries) > 0
              THEN Put(ctx2, "inventory",
                       FoldInventoryContext(Get(ctx2, "inventory", EmptyObject),
                                            entries))
              ELSE ctx2
  IN  [m EXCEPT
         !.cursor = deadlineOf(m.tasks, key),
         !.tavXpDelta = @ + effectTavXp,
         !.virtualTavXp = virtualTavXp,
         !.skillXpDelta =
            IF effectSkillXp # 0
            THEN Put(@, skillId, Get(@, skillId, 0) + effectSkillXp) ELSE @,
         !.virtualSkillXp = virtualSkillXp,
         !.inventoryDelta = FoldInventoryDelta(@, entries),
         !.requirementContext = ctx3,
         !.tasks = [@ EXCEPT ![key].status = "pending"],
         !.loopCount = @ + 1]

TickComplete ==
  /\ pc = "loop"
  /\ LoopCondition
  /\ \E key \in Executing :
       /\ Known(getSkillDefinition(key[1]))
       /\ mem.tasks[key].startedAt # Null
       /\ args.now >= deadlineOf(mem.tasks, key)
       /\ mem' = Completed(mem, key)
       /\ result' = [result EXCEPT !.completed = Append(@, key)]
       /\ callerCtx' = Aliased(callerCtx, mem'.requirementContext)
  /\ UNCHANGED << dbVars, pc, args, outcome, ticks, peer >>

Pending == WithStatus(mem.tasks, "pending")

isAllowedTarget(key) == key[2] \in getSkillDefinition(key[1]).targetIds

\* canExecute without the target's execute requirements.
canExecuteSkillOnly(key, requirementContext) ==
  LET skillDef == getSkillDefinition(key[1])
  IN  /\ Known(skillDef)
      /\ evaluateRequirements(skillDef.executeRequirements, requirementContext)

canExecute(key, requirementContext) ==
  LET skillDef == getSkillDefinition(key[1])
      targetDef == getTargetDefinition(key[2])
  IN  /\ Known(skillDef)
      /\ evaluateRequirements(skillDef.executeRequirements, requirementContext)
      /\ \/ ~ Known(targetDef)
         \/ evaluateRequirements(targetDef.executeRequirements, requirementContext)

\* Eligible passing over the tasks that have no target.
EligibleTargeted(rows, requirementContext) ==
  {k \in WithStatus(rows, "pending") :
     k[2] # TASK_TARGETLESS_KEY /\ canExecute(k, requirementContext)}

\* Eligible filtering on "not executing" instead of "pending".
EligibleNotExecuting(rows, requirementContext) ==
  {k \in DOMAIN rows :
     rows[k].status # "executing" /\ canExecute(k, requirementContext)}

Eligible(rows, requirementContext) ==
  {k \in WithStatus(rows, "pending") : canExecute(k, requirementContext)}

selectionPriority(rows, key) == getSkillDefinition(key[1]).priority

\* The comparator with the priority order reversed.
BeforeAscending(rows, a, b) ==
  IF selectionPriority(rows, a) # selectionPriority(rows, b)
  THEN selectionPriority(rows, a) < selectionPriority(rows, b)
  ELSE rows[a].createdAt < rows[b].createdAt

Before(rows, a, b) ==
  IF selectionPriority(rows, a) # selectionPriority(rows, b)
  THEN selectionPriority(rows, a) > selectionPriority(rows, b)
  ELSE rows[a].createdAt < rows[b].createdAt

\* eligible.sort(...)[0]: a row no other eligible row sorts before; rows the
\* comparison ties keep the order in which the snapshot listed them.
Picks(rows, requirementContext) ==
  {k \in Eligible(rows, requirementContext) :
     \A other \in Eligible(rows, requirementContext) : ~ Before(rows, other, k)}

TickDisallowedTarget ==
  /\ pc = "loop"
  /\ LoopCondition
  /\ Executing = {}
  /\ \E key \in Pending :
       Known(getSkillDefinition(key[1])) /\ ~ isAllowedTarget(key)
  /\ Throw("skill cannot target id")

NoDisallowedTarget ==
  \A key \in Pending :
    Known(getSkillDefinition(key[1])) => isAllowedTarget(key)

TickNothingEligible ==
  /\ pc = "loop"
  /\ LoopCondition
  /\ Executing = {}
  /\ NoDisallowedTarget
  /\ Eligible(mem.tasks, mem.requirementContext) = {}
  /\ Break

\* TickStart stamping the started task with now instead of the cursor.
TickStartAtNow ==
  /\ pc = "loop"
  /\ LoopCondition
  /\ Executing = {}
  /\ NoDisallowedTarget
  /\ \E pick \in Picks(mem.tasks, mem.requirementContext) :
       /\ mem' = [mem EXCEPT !.tasks[pick].status = "executing",
                             !.tasks[pick].startedAt = args.now,
                             !.tasks[pick].endedAt = Null]
       /\ result' = [result EXCEPT !.started = Append(@, pick)]
  /\ UNCHANGED << dbVars, pc, args, outcome, callerCtx, ticks, peer >>

\* TickStart without the test that nothing is executing.
TickStartWhileExecuting ==
  /\ pc = "loop"
  /\ LoopCondition
  /\ NoDisallowedTarget
  /\ \E pick \in Picks(mem.tasks, mem.requirementContext) :
       /\ mem' = [mem EXCEPT !.tasks[pick].status = "executing",
                             !.tasks[pick].startedAt = mem.cursor,
                             !.tasks[pick].endedAt = Null]
       /\ result' = [result EXCEPT !.started = Append(@, pick)]
  /\ UNCHANGED << dbVars, pc, args, outcome, callerCtx, ticks, peer >>

TickStart ==
  /\ pc = "loop"
  /\ LoopCondition
  /\ Executing = {}
  /\ NoDisallowedTarget
  /\ \E pick \in Picks(mem.tasks, mem.requirementContext) :
       /\ mem' = [mem EXCEPT !.tasks[pick].status = "executing",
                             !.tasks[pick].startedAt = mem.cursor,
                             !.tasks[pick].endedAt = Null]
       /\ result' = [result EXCEPT !.started = Append(@, pick)]
  /\ UNCHANGED << dbVars, pc, args, outcome, callerCtx, ticks, peer >>

\* uniq_task_executing is checked at every UPDATE of the commit, which run in
\* the order the snapshot listed the rows; SQL leaves that order open.
UniqueExecutingHazard ==
  LET stored == WithStatus(tasks, "executing")
      wanted == WithStatus(mem.tasks, "executing")
  IN  stored # {} /\ wanted # {} /\ stored # wanted

\* TickCommit with the XP updates issued outside the transaction.
TickCommitXpOutsideTransaction ==
  /\ pc = "commit"
  /\ pc' = "done"
  /\ mem' = NoMem
  /\ UNCHANGED << args, result, callerCtx, tavFlags, ticks, peer >>
  /\ tavXp' = tavXp + mem.tavXpDelta
  /\ skills' = [id \in DOMAIN skills |->
                  skills[id] + Get(mem.skillXpDelta, id, 0)]
  /\ LET applied == applyInventoryDelta(inventory, mem.inventoryDelta, TRUE)
     IN  IF ~ applied.ok
         THEN /\ outcome' = "Insufficient quantity for item"
              /\ UNCHANGED << updatedAt, tasks, inventory >>
         ELSE /\ outcome' = "returned"
              /\ inventory' = applied.inv
              /\ tasks' = [k \in DOMAIN tasks |->
                             [tasks[k] EXCEPT
                                !.status = mem.tasks[k].status,
                                !.startedAt = mem.tasks[k].startedAt,
                                !.endedAt = mem.tasks[k].endedAt]]
              /\ updatedAt' = args.now

TickCommit ==
  /\ pc = "commit"
  /\ pc' = "done"
  /\ mem' = NoMem
  /\ UNCHANGED << args, result, callerCtx, tavFlags, ticks, peer >>
  /\ LET applied == applyInventoryDelta(inventory, mem.inventoryDelta, TRUE)
     IN  \E newRowFirst \in (IF UniqueExecutingHazard THEN BOOLEAN ELSE {FALSE}) :
           IF ~ applied.ok
           THEN /\ outcome' = "Insufficient quantity for item"
                /\ UNCHANGED << tavXp, updatedAt, skills, tasks, inventory >>
           ELSE IF newRowFirst
           THEN /\ outcome' = "duplicate key value violates uniq_task_executing"
                /\ UNCHANGED << tavXp, updatedAt, skills, tasks, inventory >>
           ELSE /\ outcome' = "returned"
                /\ tavXp' = tavXp + mem.tavXpDelta
                /\ skills' = [id \in DOMAIN skills |->
                                skills[id] + Get(mem.skillXpDelta, id, 0)]
                /\ inventory' = applied.inv
                /\ tasks' = [k \in DOMAIN tasks |->
                               [tasks[k] EXCEPT
                                  !.status = mem.tasks[k].status,
                                  !.startedAt = mem.tasks[k].startedAt,
                                  !.endedAt = mem.tasks[k].endedAt]]
                /\ updatedAt' = args.now

\* The tasks a caller asks for: each skill with a target it allows, a skill
\* the registry does not know, and a target the skill does not allow.
TaskInputs ==
  { taskKey("logging", "small_tree"), taskKey("wood_craft", "plank"),
    taskKey("idle", TASK_TARGETLESS_KEY), taskKey("ghost", TASK_TARGETLESS_KEY),
    taskKey("logging", "plank") }
\* The per-task priorities a caller gives: none, an invalid one and, for the
\* skill that shares its base priority with another, a valid one.
PriorityInputs(skillId) ==
  IF skillId = "idle" THEN {Null, 9, 10} ELSE {Null, 10}
LastTickAtInputs == {Null, MaxTime}

Next ==
  \/ \E input \in TaskInputs, context \in ContextChoices :
       \E priority \in PriorityInputs(input[1]) :
       AddTask(input[1], input[2], priority, context)
  \/ \E now \in Times, lastTickAt \in LastTickAtInputs,
        context \in ContextChoices \cup {callerCtx} :
       TickLoad(now, lastTickAt, context)
  \/ TickLoopExit
  \/ TickExecutingThrows
  \/ TickTimeExhausted
  \/ TickComplete
  \/ TickDisallowedTarget
  \/ TickNothingEligible
  \/ TickStart
  \/ TickCommit

Spec == Init /\ [][Next]_vars

(***************************************************************************)
(* The single-pass tickTask of lib/task.ts: one transaction that settles   *)
(* the executing task and then starts at most one pending task.            *)
(***************************************************************************)
\* canExecuteTask, read by a caller that treats a throw as "not executable".
canExecuteTask(key, context) ==
  LET skillDefinition == getSkillDefinition(key[1])
      targetDefinition == getTargetDefinition(key[2])
      merged == mergeRequirementContexts(buildRequirementContext, context)
  IN  /\ Known(skillDefinition)
      /\ key[2] \in skillDefinition.targetIds
      /\ evaluateRequirements(skillDefinition.executeRequirements, merged)
      /\ \/ ~ Known(targetDefinition)
         \/ /\ \/ key[2] = TASK_TARGETLESS_KEY
               \/ targetDefinition.skills = {}
               \/ key[1] \in targetDefinition.skills
            /\ evaluateRequirements(targetDefinition.executeRequirements, merged)

markTaskFailed(rows, key, now) ==
  [rows EXCEPT ![key].status = "failed", ![key].endedAt = now]

moveTaskToPending(rows, key, now) ==
  [rows EXCEPT ![key].status = "pending", ![key].startedAt = Null,
               ![key].endedAt = now]

\* The executing task settled: the rows, the result so far, and hasExecuting.
handleExecutingTask(now, lastTick) ==
  IF WithStatus(tasks, "executing") = {}
  THEN {[rows |-> tasks, result |-> emptyResult, hasExecuting |-> FALSE]}
  ELSE {IF ~ Known(getSkillDefinition(key[1]))
        THEN [rows |-> markTaskFailed(tasks, key, now),
              result |-> [emptyResult EXCEPT !.failed = << key >>],
              hasExecuting |-> FALSE]
        ELSE IF now >= lastTick + getSkillDefinition(key[1]).duration
        THEN [rows |-> moveTaskToPending(tasks, key, now),
              result |-> [emptyResult EXCEPT !.completed = << key >>],
              hasExecuting |-> FALSE]
        ELSE [rows |-> tasks, result |-> emptyResult, hasExecuting |-> TRUE]
        : key \in WithStatus(tasks, "executing")}

\* candidates.sort(...)[0]: ascending priority, then ascending createdAt.
startBestPendingTask(rows, context) ==
  LET candidates == {k \in WithStatus(rows, "pending") : canExecuteTask(k, context)}
      priority(k) == getSkillDefinition(k[1]).priority
  IN  {k \in candidates :
         \A other \in candidates :
           /\ priority(other) >= priority(k)
           /\ priority(other) = priority(k)
                => rows[other].createdAt >= rows[k].createdAt}

tickTaskSinglePass(now, lastTickAt, context) ==
  /\ pc \in {"idle", "done"}
  /\ ticks < MaxTicks
  /\ ticks' = ticks + 1
  /\ pc' = "done"
  /\ args' = [op |-> "tickSinglePass"]
  /\ mem' = NoMem
  /\ outcome' = "returned"
  /\ updatedAt' = now
  /\ callerCtx' = context
  /\ UNCHANGED << tavXp, tavFlags, skills, inventory, peer >>
  /\ \E settled \in handleExecutingTask(now, cursorStart(lastTickAt, now)) :
       LET chosen == startBestPendingTask(settled.rows, context)
       IN  IF settled.hasExecuting \/ chosen = {}
           THEN /\ tasks' = settled.rows
                /\ result' = settled.result
           ELSE \E key \in chosen :
                  /\ tasks' = [settled.rows EXCEPT ![key].status = "executing",
                                                   ![key].startedAt = now,
                                                   ![key].endedAt = Null]
                  /\ result' = [settled.result EXCEPT !.started = << key >>]

SinglePassNext ==
  \/ \E input \in TaskInputs, context \in ContextChoices :
       \E priority \in PriorityInputs(input[1]) :
       AddTask(input[1], input[2], priority, context)
  \/ \E now \in Times, lastTickAt \in LastTickAtInputs,
        context \in ContextChoices :
       tickTaskSinglePass(now, lastTickAt, context)

SinglePassSpec == Init /\ [][SinglePassNext]_vars

(***************************************************************************)
(* tickTask as a function of the stored rows, for a call that runs beside  *)
(* the call in flight: the snapshot it loads, the outcomes of its loop,    *)
(* which touches nothing but its own memory, and what its commit makes of  *)
(* the rows it finds stored at that time.                                  *)
(***************************************************************************)
Stored ==
  [tavXp |-> tavXp, tavFlags |-> tavFlags, updatedAt |-> updatedAt,
   skills |-> skills, tasks |-> tasks, inventory |-> inventory]

contextOf(db) ==
  [abilities |-> DEFAULT_TAV_ABILITY_SCORES,
   tavLevel |-> computeLevel(db.tavXp, TAV_LEVEL_THRESHOLDS),
   skillLevels |->
     [id \in DOMAIN db.skills |->
        computeLevel(db.skills[id], SKILL_LEVEL_THRESHOLDS)],
   inventory |-> getInventoryTotals(db.inventory),
   flags |-> db.tavFlags]

snapshotOf(db, now, lastTickAt, context) ==
  [tasks |-> db.tasks,
   requirementContext |-> Spread(contextOf(db), context),
   cursor |-> IF lastTickAt # Null THEN lastTickAt
              ELSE IF db.updatedAt # Null THEN db.updatedAt ELSE now,
   tavXpDelta |-> 0,
   skillXpDelta |-> EmptyObject,
   inventoryDelta |-> << >>,
   virtualTavXp |-> db.tavXp,
   virtualSkillXp |-> db.skills,
   loopCount |-> 0]

Ended(how, m, r) == [outcome |-> how, mem |-> m, result |-> r]

RECURSIVE runLoop(_, _, _)
runLoop(m, r, now) ==
  IF ~ (m.cursor <= now /\ m.loopCount < MAX_LOOP_LIMIT)
  THEN {Ended("commit", m, r)}
  ELSE IF WithStatus(m.tasks, "executing") # {}
  THEN UNION
         { IF ~ Known(getSkillDefinition(key[1]))
           THEN {Ended("skill not found", m, r)}
           ELSE IF m.tasks[key].startedAt = Null
           THEN {Ended("startedAt is not set for task", m, r)}
           ELSE IF now < deadlineOf(m.tasks, key)
           THEN {Ended("commit", m, r)}
           ELSE runLoop(Completed(m, key),
                        [r EXCEPT !.completed = Append(@, key)], now)
           : key \in WithStatus(m.tasks, "executing") }
  ELSE IF \E key \in WithStatus(m.tasks, "pending") :
            Known(getSkillDefinition(key[1])) /\ ~ isAllowedTarget(key)
  THEN {Ended("skill cannot target id", m, r)}
  ELSE IF Eligible(m.tasks, m.requirementContext) = {}
  THEN {Ended("commit", m, r)}
  ELSE UNION
         { runLoop([m EXCEPT !.tasks[pick].status = "executing",
                             !.tasks[pick].startedAt = m.cursor,
                             !.tasks[pick].endedAt = Null],
                   [r EXCEPT !.started = Append(@, pick)], now)
           : pick \in Picks(m.tasks, m.requirementContext) }

\* The rows after the commit transaction of a call whose loop ended with m:
\* the XP deltas are added to what is stored, the task rows of the snapshot
\* are overwritten with the snapshot's values.  A failed transaction leaves
\* the rows as they are.
commitOutcomes(db, m, now) ==
  LET applied == applyInventoryDelta(db.inventory, m.inventoryDelta, TRUE)
      stored == WithStatus(db.tasks, "executing")
      wanted == WithStatus(m.tasks, "executing")
      committed ==
        [tavXp |-> db.tavXp + m.tavXpDelta,
         tavFlags |-> db.tavFlags,
         updatedAt |-> now,
         skills |-> [id \in DOMAIN db.skills |->
                       db.skills[id] + Get(m.skillXpDelta, id, 0)],
         tasks |-> [k \in DOMAIN db.tasks |->
                      IF k \in DOMAIN m.tasks
                      THEN [db.tasks[k] EXCEPT
                              !.status = m.tasks[k].status,
                              !.startedAt = m.tasks[k].startedAt,
                              !.endedAt = m.tasks[k].endedAt]
                      ELSE db.tasks[k]],
         inventory |-> applied.inv]
  IN  IF ~ applied.ok THEN {db}
      ELSE IF wanted # {} /\ stored \ DOMAIN m.tasks # {} THEN {db}
      ELSE IF stored # {} /\ wanted # {} /\ stored # wanted THEN {db, committed}
      ELSE {committed}

tickOutcomes(db, call) ==
  UNION { IF ended.outcome = "commit"
          THEN commitOutcomes(db, ended.mem, call.now)
          ELSE {db}
          : ended \in runLoop(snapshotOf(db, call.now, call.lastTickAt,
                                         call.context),
                              emptyResult, call.now) }

\* A second client calls tickTask for the tav while the first call is between
\* its snapshot and its commit.
PeerLoad(now) ==
  /\ pc \in {"loop", "commit"}
  /\ peer.pc \in {"idle", "done"}
  /\ ticks < MaxTicks
  /\ ticks' = ticks + 1
  /\ peer' = [pc |-> "loaded",
              call |-> [now |-> now, lastTickAt |-> Null, context |-> NoContext],
              rival |-> args,
              db |-> Stored,
              mem |-> snapshotOf(Stored, now, Null, NoContext)]
  /\ UNCHANGED << dbVars, callerCtx, pc, args, mem, result, outcome >>

PeerCommit ==
  /\ peer.pc = "loaded"
  /\ peer' = [peer EXCEPT !.pc = "done"]
  /\ \E ended \in runLoop(peer.mem, emptyResult, peer.call.now) :
       \E db \in (IF ended.outcome = "commit"
                  THEN commitOutcomes(Stored, ended.mem, peer.call.now)
                  ELSE {Stored}) :
         /\ tavXp' = db.tavXp
         /\ updatedAt' = db.updatedAt
         /\ skills' = db.skills
         /\ tasks' = db.tasks
         /\ inventory' = db.inventory
  /\ UNCHANGED << tavFlags, callerCtx, pc, args, mem, result, outcome, ticks >>

ConcurrentInit == Init /\ tasks = EmptyObject /\ tavFlags = {"forest_access"}

ConcurrentNext ==
  \/ \E input \in TaskInputs, context \in ContextChoices :
       \E priority \in PriorityInputs(input[1]) :
       AddTask(input[1], input[2], priority, context)
  \/ \E now \in Times, lastTickAt \in LastTickAtInputs,
        context \in ContextChoices \cup {callerCtx} :
       TickLoad(now, lastTickAt, context)
  \/ TickLoopExit
  \/ TickTimeExhausted
  \/ TickComplete
  \/ TickNothingEligible
  \/ TickStart
  \/ TickCommit
  \/ \E now \in Times : PeerLoad(now)
  \/ PeerCommit

ConcurrentSpec == ConcurrentInit /\ [][ConcurrentNext]_vars

(***************************************************************************)
(* The inventory stack manager called on its own: applyInventoryDelta,     *)
(* setInventoryItems and moveInventoryItem, each one transaction on the    *)
(* stacks of the tav.                                                      *)
(***************************************************************************)
MaxSlot == 2
MaxQty == 3

Failed(inv) == [ok |-> FALSE, inv |-> inv]
Done(inv) == [ok |-> TRUE, inv |-> inv]

\* moveInventoryItem merging without regard to the stack limit.
moveInventoryItemUncapped(inv, fromSlot, toSlot) ==
  IF fromSlot \notin DOMAIN inv \/ toSlot \notin DOMAIN inv
       \/ inv[fromSlot].itemId # inv[toSlot].itemId
  THEN Failed(inv)
  ELSE Done(Remove([inv EXCEPT ![toSlot].qty = @ + inv[fromSlot].qty],
                   fromSlot))

\* moveInventoryItem re-indexing the stacks: the moved stack goes last and the
\* stacks above its old slot close the gap.
moveInventoryItemCompacting(inv, fromSlot, toSlot) ==
  IF fromSlot \notin DOMAIN inv THEN Failed(inv)
  ELSE LET others == (DOMAIN inv) \ {fromSlot}
           rank(s) == Cardinality({t \in others : t < s})
       IN  Done([k \in 0..Cardinality(others) |->
                   IF k = Cardinality(others) THEN inv[fromSlot]
                   ELSE inv[CHOOSE s \in others : rank(s) = k]])

\* moveInventoryItem vacating the source of a merge whatever is left over.
moveInventoryItemVacating(inv, fromSlot, toSlot) ==
  IF fromSlot \notin DOMAIN inv THEN Failed(inv)
  ELSE IF toSlot \in DOMAIN inv /\ inv[toSlot].itemId = inv[fromSlot].itemId
  THEN Done(Remove(Put(inv, toSlot,
                       [itemId |-> inv[toSlot].itemId,
                        qty |-> Min2(getStackLimitSafe(inv[toSlot].itemId),
                                     inv[toSlot].qty + inv[fromSlot].qty)]),
                   fromSlot))
  ELSE IF toSlot \in DOMAIN inv
  THEN Done(Put(Put(inv, fromSlot, inv[toSlot]), toSlot, inv[fromSlot]))
  ELSE Done(Put(Remove(inv, fromSlot), toSlot, inv[fromSlot]))

moveInventoryItem(inv, fromSlot, toSlot) ==
  IF fromSlot < 0 \/ toSlot < 0 THEN Failed(inv)
  ELSE IF fromSlot \notin DOMAIN inv THEN Failed(inv)
  ELSE LET from == inv[fromSlot] IN
       IF ~ KnownItem(from.itemId) THEN Failed(inv)
       ELSE LET stackLimit == getStackLimitSafe(from.itemId) IN
            IF toSlot \notin DOMAIN inv
            THEN Done(Put(Remove(inv, fromSlot), toSlot, from))
            ELSE LET to == inv[toSlot] IN
                 IF to.itemId = from.itemId
                 THEN LET total == to.qty + from.qty
                          merged == Min2(stackLimit, total)
                          leftover == total - merged
                          afterTo == Put(inv, toSlot,
                                         [itemId |-> to.itemId, qty |-> merged])
                      IN  IF leftover > 0
                          THEN Done(Put(afterTo, fromSlot,
                                        [itemId |-> from.itemId,
                                         qty |-> leftover]))
                          ELSE Done(Remove(afterTo, fromSlot))
                 ELSE Done(Put(Put(inv, fromSlot, to), toSlot, from))

RECURSIVE chunksOf(_, _, _)
chunksOf(itemId, limit, remaining) ==
  IF remaining <= 0 THEN << >>
  ELSE << [itemId |-> itemId, qty |-> Min2(limit, remaining)] >>
         \o chunksOf(itemId, limit, remaining - Min2(limit, remaining))

RECURSIVE chunkifyTotals(_)
chunkifyTotals(items) ==
  IF items = << >> THEN << >>
  ELSE LET itemId == Head(items)[1]
           remaining == IF Head(items)[2] > 0 THEN Head(items)[2] ELSE 0
       IN  (IF remaining = 0 THEN << >>
            ELSE chunksOf(itemId, getStackLimitSafe(itemId), remaining))
             \o chunkifyTotals(Tail(items))

setInventoryItems(inv, items) ==
  IF \E i \in DOMAIN items : items[i][2] > 0 /\ ~ KnownItem(items[i][1])
  THEN Failed(inv)
  ELSE LET chunks == chunkifyTotals(items)
       IN  Done([slot \in 0..(Len(chunks) - 1) |-> chunks[slot + 1]])

\* What a caller passes: deltas and totals of one item, also of an item the
\* registry does not know, and of two items.
Quantities == (0 - MaxQty)..MaxQty

ItemBatches ==
  {<< << itemId, q >> >> : itemId \in {"log", "plank", "torch"}, q \in Quantities}
    \cup {<< << "log", a >>, << "plank", b >> >> :
             a, b \in {0 - MaxQty, -1, 1, MaxQty}}

SlotInputs == -1..MaxSlot

EndInventoryCall(call, outcomeOfCall) ==
  /\ args' = call
  /\ outcome' = IF outcomeOfCall.ok THEN "returned"
                ELSE IF "error" \in DOMAIN outcomeOfCall
                THEN outcomeOfCall.error ELSE "threw"
  /\ inventory' = outcomeOfCall.inv
  /\ DOMAIN outcomeOfCall.inv \subseteq 0..MaxSlot
  /\ UNCHANGED << tavXp, tavFlags, updatedAt, skills, tasks, callerCtx, pc,
                  mem, result, ticks, peer >>

ApplyInventoryDelta(deltas, strict) ==
  EndInventoryCall([op |-> "applyInventoryDelta", deltas |-> deltas,
                    strict |-> strict],
                   applyInventoryDelta(inventory, deltas, strict))

SetInventoryItems(items) ==
  EndInventoryCall([op |-> "setInventoryItems", items |-> items],
                   setInventoryItems(inventory, items))

MoveInventoryItem(fromSlot, toSlot) ==
  EndInventoryCall([op |-> "moveInventoryItem", fromSlot |-> fromSlot,
                    toSlot |-> toSlot],
                   moveInventoryItem(inventory, fromSlot, toSlot))

InventoryInit == Init /\ tasks = EmptyObject /\ tavFlags = {}

InventoryNext ==
  \/ \E deltas \in ItemBatches, strict \in BOOLEAN :
       ApplyInventoryDelta(deltas, strict)
  \/ \E items \in ItemBatches : SetInventoryItems(items)
  \/ \E fromSlot, toSlot \in SlotInputs : MoveInventoryItem(fromSlot, toSlot)

InventorySpec == InventoryInit /\ [][InventoryNext]_vars

(***************************************************************************)
(* Properties.                                                             *)
(***************************************************************************)
Range(seq) == {seq[i] : i \in DOMAIN seq}

InLoop == pc \in {"loop", "commit"}

\* The task the loop has just started and not yet completed, if any.
JustStarted ==
  IF InLoop /\ result.started # << >>
  THEN {k \in {result.started[Len(result.started)]} :
          mem.tasks[k].status = "executing"}
  ELSE {}

\* The loop stopped because nothing was eligible, not for time or the cap.
StoppedForNothingEligible ==
  /\ pc = "commit"
  /\ WithStatus(mem.tasks, "executing") = {}
  /\ mem.cursor <= args.now
  /\ mem.loopCount < MAX_LOOP_LIMIT

\* C1: at most one task of the tav has status executing, in the stored rows
\* and in the snapshot the tick loop works on, at every step of the loop.
C1_AtMostOneExecuting ==
  /\ Cardinality(WithStatus(tasks, "executing")) <= 1
  /\ InLoop => Cardinality(WithStatus(mem.tasks, "executing")) <= 1

\* A tick about to commit that found one task executing, completed it and
\* started a different one.
C1_Witness ==
  /\ pc = "commit"
  /\ WithStatus(tasks, "executing") # {}
  /\ WithStatus(mem.tasks, "executing") # {}
  /\ WithStatus(mem.tasks, "executing") # WithStatus(tasks, "executing")

\* C2: a tick that repeats a committed tick with the same now, the same
\* window option and the same context object, nothing added or changed in
\* between, returns three empty lists and changes no XP, item or task status.
C2_RepeatedTickIsNoOp ==
  (args.op = "tick" /\ args.repeat) =>
    /\ result = emptyResult
    /\ pc = "done" => outcome = "returned"
    /\ pc = "commit" =>
         /\ mem.tavXpDelta = 0
         /\ mem.skillXpDelta = EmptyObject
         /\ mem.inventoryDelta = << >>
         /\ \A k \in DOMAIN tasks : mem.tasks[k].status = tasks[k].status

\* C3: the loop of a tick is bounded: every iteration that stays in the loop
\* records one more start or completion, a call records at most
\* MAX_LOOP_LIMIT completions (one per counted iteration) and at most one
\* start more than completions.
C3_LoopInvariant ==
  /\ Len(result.completed) <= MAX_LOOP_LIMIT
  /\ Len(result.started) <= Len(result.completed) + 1
  /\ InLoop => mem.loopCount = Len(result.completed)

C3_LoopStep ==
  (pc = "loop" /\ pc' = "loop") =>
    Len(result'.started) + Len(result'.completed)
      = Len(result.started) + Len(result.completed) + 1

StartContext == Spread(buildRequirementContext, args.context)

LiveContext ==
  LET base == Get(StartContext, "inventory", EmptyObject)
      items == (DOMAIN base) \cup EntryKeys(mem.inventoryDelta)
      levels == StartContext.skillLevels
  IN  [StartContext EXCEPT
         !.inventory =
            [i \in items |-> Get(base, i, 0) + EntryGet(mem.inventoryDelta, i, 0)],
         !.tavLevel =
            IF mem.tavXpDelta # 0
            THEN computeLevel(tavXp + mem.tavXpDelta, TAV_LEVEL_THRESHOLDS)
            ELSE @,
         !.skillLevels =
            [id \in (DOMAIN levels) \cup (DOMAIN mem.skillXpDelta) |->
               IF id \in DOMAIN mem.skillXpDelta
               THEN computeLevel(Get(skills, id, 0) + mem.skillXpDelta[id],
                                 SKILL_LEVEL_THRESHOLDS)
               ELSE levels[id]]]

\* C6: at every selection step of a tick the context holds the item totals,
\* skill levels and tav level as changed by the completions processed earlier
\* in the call; a task is started only if it is eligible in that context, and
\* the loop stops for lack of work only if no pending task is eligible in it.
C6_SelectionSeesRewards ==
  InLoop =>
    /\ mem.requirementContext = LiveContext
    /\ \A k \in JustStarted : canExecute(k, LiveContext)
    /\ StoppedForNothingEligible =>
         \A o \in WithStatus(mem.tasks, "pending") : ~ canExecute(o, LiveContext)

\* A task that was not eligible when the call began is started after a
\* completion of the same call.
C6_Witness ==
  /\ pc = "commit"
  /\ result.completed # << >>
  /\ \E k \in JustStarted :
       /\ tasks[k].status = "pending"
       /\ ~ canExecute(k, StartContext)

\* C7: once a tick call has ended, a task whose skill is not in the registry
\* is not executing: the call did not raise, it set the task to failed.
C7_UnknownSkillForcedToFailed ==
  (pc = "done" /\ args.op = "tick") =>
    /\ outcome # "skill not found"
    /\ \A k \in DOMAIN tasks :
         ~ Known(getSkillDefinition(k[1])) => tasks[k].status # "executing"

\* C8: a tick that force-failed the executing task starts no pending task.
C8_NothingStartedAfterForcedFailure ==
  result.failed # << >> => result.started = << >>

\* C9: a failed task stays failed and is never listed as started or
\* completed; a step changes a status only from pending to executing, from
\* executing to pending or from executing to failed, in the snapshot and in
\* the stored rows.
C9_Allowed ==
  { << "pending", "executing" >>, << "executing", "pending" >>,
    << "executing", "failed" >> }

C9_FailedNotListed ==
  \A k \in DOMAIN tasks :
    tasks[k].status = "failed" =>
      k \notin Range(result.started) \cup Range(result.completed)

C9_Transitions ==
  /\ \A k \in DOMAIN tasks :
       \/ tasks'[k].status = tasks[k].status
       \/ /\ << tasks[k].status, tasks'[k].status >> \in C9_Allowed
          /\ pc = "commit"
  /\ (pc = "loop" /\ pc' \in {"loop", "commit"}) =>
       \A k \in DOMAIN mem.tasks :
         \/ mem'.tasks[k].status = mem.tasks[k].status
         \/ << mem.tasks[k].status, mem'.tasks[k].status >> \in C9_Allowed

C9_FailedIsTerminal == [] C9_FailedNotListed /\ [][C9_Transitions]_vars

\* A tick committed a start while another task of the tav was failed.
C9_Witness ==
  /\ pc = "done"
  /\ args.op = "tick"
  /\ outcome = "returned"
  /\ result.started # << >>
  /\ \E k \in DOMAIN tasks :
       tasks[k].status = "failed" /\ Known(getSkillDefinition(k[1]))

\* C10: a tick does not raise for a pending task whose target its skill does
\* not allow; the task stays pending and an eligible task is still started.
C10_DisallowedTargetSkipped ==
  /\ (pc = "done" /\ args.op = "tick") => outcome # "skill cannot target id"
  /\ pc = "commit" =>
       \A k \in WithStatus(tasks, "pending") :
         (Known(getSkillDefinition(k[1])) /\ ~ isAllowedTarget(k))
           => mem.tasks[k].status = "pending"

\* The task a step of the loop starts, if the step is a start.
StartedByStep ==
  IF pc = "loop" /\ Len(result'.started) = Len(result.started) + 1
  THEN {result'.started[Len(result'.started)]}
  ELSE {}

skillExecuteHolds(key, context) ==
  evaluateRequirements(getSkillDefinition(key[1]).executeRequirements, context)

targetExecuteHolds(key, context) ==
  \/ key[2] = TASK_TARGETLESS_KEY
  \/ /\ Known(getTargetDefinition(key[2]))
     /\ evaluateRequirements(getTargetDefinition(key[2]).executeRequirements,
                             context)

\* C11: a step of the loop starts a task only if the execute requirements of
\* its skill and those of its target (none for the targetless key) both hold
\* in the context as it stands at that step, and a pending task of a known
\* skill that fails either one is still pending after the step.
C11_Step ==
  (pc = "loop" /\ pc' \in {"loop", "commit"}) =>
    /\ \A k \in StartedByStep :
         /\ mem.tasks[k].status = "pending"
         /\ skillExecuteHolds(k, mem.requirementContext)
         /\ targetExecuteHolds(k, mem.requirementContext)
    /\ \A o \in WithStatus(mem.tasks, "pending") :
         (/\ Known(getSkillDefinition(o[1]))
          /\ ~ (/\ skillExecuteHolds(o, mem.requirementContext)
                /\ targetExecuteHolds(o, mem.requirementContext)))
           => mem'.tasks[o].status = "pending"

C11_StartsOnlyExecutable == [][C11_Step]_vars

\* A tick started a task while a pending task of higher priority, whose skill
\* requirements hold but whose target requirements do not, stayed pending.
C11_Witness ==
  /\ pc = "commit"
  /\ JustStarted # {}
  /\ \E o \in WithStatus(mem.tasks, "pending") :
       /\ o[2] # TASK_TARGETLESS_KEY
       /\ skillExecuteHolds(o, mem.requirementContext)
       /\ ~ targetExecuteHolds(o, mem.requirementContext)
       /\ \A k \in JustStarted :
            getSkillDefinition(o[1]).priority > getSkillDefinition(k[1]).priority

\* C12: a tick call that ends without committing, because the strict
\* application of the inventory deltas or a task update of the commit failed
\* or because the loop raised, leaves tav XP, skill XP, the inventory stacks,
\* every task row and the last-tick marker as they were before the call.
C12_Step ==
  (pc \in {"loop", "commit"} /\ pc' = "done" /\ outcome' # "returned") =>
    /\ tavXp' = tavXp
    /\ skills' = skills
    /\ inventory' = inventory
    /\ tasks' = tasks
    /\ updatedAt' = updatedAt

C12_FailedCommitLeavesNothing == [][C12_Step]_vars

\* The commit of a tick that had completed and started tasks in memory failed
\* on insufficient quantity; the stored row of the started task is pending.
C12_Witness ==
  /\ pc = "done"
  /\ args.op = "tick"
  /\ outcome = "Insufficient quantity for item"
  /\ result.completed # << >>
  /\ \E k \in Range(result.completed) :
       /\ tasks[k].status = "pending"
       /\ Get(resolveCompletionEffect(k[1], k[2]), "skillXp", 0) > 0
       /\ skills[k[1]] = 0

\* The first client's call, in the form tickOutcomes takes.
CallInFlight ==
  [now |-> args.now, lastTickAt |-> args.lastTickAt, context |-> args.context]

SerialOutcomes(db, first, second) ==
  UNION {tickOutcomes(d, second) : d \in tickOutcomes(db, first)}

\* C13: when two tick calls for the tav overlap (both took their snapshot
\* before either committed), the rows stored after the second of them has
\* ended are rows that running the two calls one after the other, in one of
\* the two orders, can produce.
C13_Step ==
  LET overlapped == /\ peer.pc \in {"loaded", "done"}
                    /\ args.op = "tick"
                    /\ peer.rival = args
      peerEndsLast == /\ peer.pc = "loaded" /\ peer'.pc = "done"
                      /\ pc = "done"
      callEndsLast == /\ pc = "commit" /\ pc' = "done"
                      /\ peer.pc = "done"
  IN  (overlapped /\ (peerEndsLast \/ callEndsLast)) =>
        Stored' \in SerialOutcomes(peer.db, CallInFlight, peer.call)
                      \cup SerialOutcomes(peer.db, peer.call, CallInFlight)

C13_TicksDoNotInterleave == [][C13_Step]_vars

\* The merged completion effect of each entry of a result's completed list,
\* summed: tav XP, the XP of one skill, the delta of one item.
RECURSIVE CompletedTavXp(_)
CompletedTavXp(completed) ==
  IF completed = << >> THEN 0
  ELSE Get(resolveCompletionEffect(Head(completed)[1], Head(completed)[2]),
           "tavXp", 0)
         + CompletedTavXp(Tail(completed))

RECURSIVE CompletedSkillXp(_, _)
CompletedSkillXp(completed, skillId) ==
  IF completed = << >> THEN 0
  ELSE (IF Head(completed)[1] = skillId
        THEN Get(resolveCompletionEffect(Head(completed)[1], Head(completed)[2]),
                 "skillXp", 0)
        ELSE 0)
         + CompletedSkillXp(Tail(completed), skillId)

RECURSIVE CompletedItemDelta(_, _)
CompletedItemDelta(completed, itemId) ==
  IF completed = << >> THEN 0
  ELSE EntryGet(Get(resolveCompletionEffect(Head(completed)[1],
                                             Head(completed)[2]),
                    "inventory", << >>), itemId, 0)
         + CompletedItemDelta(Tail(completed), itemId)

ItemIds == {ITEM_DEFINITIONS[i].id : i \in DOMAIN ITEM_DEFINITIONS}

\* C14: the commit of a tick adds to tav XP the sum of the merged tavXp of
\* the entries of result.completed, to each skill's XP the sum of the merged
\* skillXp of the completed entries of that skill, and to each item's total
\* the sum of their merged inventory deltas; with nothing completed it leaves
\* XP and the inventory stacks as they were.
C14_Step ==
  (pc = "commit" /\ pc' = "done" /\ outcome' = "returned") =>
    /\ tavXp' = tavXp + CompletedTavXp(result.completed)
    /\ DOMAIN skills' = DOMAIN skills
    /\ \A id \in DOMAIN skills :
         skills'[id] = skills[id] + CompletedSkillXp(result.completed, id)
    /\ \A itemId \in ItemIds :
         Get(getInventoryTotals(inventory'), itemId, 0)
           = Get(getInventoryTotals(inventory), itemId, 0)
               + CompletedItemDelta(result.completed, itemId)
    /\ result.completed = << >> =>
         /\ tavXp' = tavXp
         /\ skills' = skills
         /\ inventory' = inventory

C14_CommitAddsCompletedRewards == [][C14_Step]_vars

\* A committed tick that completed the same task twice: the rewards of two
\* entries add up.
C14_Witness ==
  /\ pc = "done"
  /\ args.op = "tick"
  /\ outcome = "returned"
  /\ Len(result.completed) = 2
  /\ result.completed[1] = result.completed[2]
  /\ tavXp = 2

\* The scenario of C15 in the units of the registry above (one duration of
\* logging for 2000 ms, so that tick(now = 2) stands for the tick at 5000 ms:
\* two whole durations have passed; one reward for +3 tav XP, +10 skill XP,
\* +1 log): the only task, logging/small_tree, was started by tick(now = 0)
\* and the next tick, at now = 2, has run its loop.
ScenarioTask == taskKey("logging", "small_tree")

C15_SecondTickDone ==
  /\ pc = "commit"
  /\ args.now = 2
  /\ args.lastTickAt = Null
  /\ DOMAIN tasks = {ScenarioTask}
  /\ tasks[ScenarioTask].status = "executing"
  /\ tasks[ScenarioTask].startedAt = 0
  /\ updatedAt = 0
  /\ tavXp = 0
  /\ skills[ScenarioTask[1]] = 0
  /\ inventory = EmptyObject
  /\ canExecute(ScenarioTask, StartContext)

\* C15 (as stated): the second tick lists the task once in completed and once
\* in started, and leaves the reward of one completion.
C15_CompletedOnce ==
  C15_SecondTickDone =>
    /\ result.completed = << ScenarioTask >>
    /\ result.started = << ScenarioTask >>
    /\ mem.tavXpDelta = CompletedTavXp(<< ScenarioTask >>)
    /\ EntryGet(mem.inventoryDelta, "log", 0) = 1

\* C15 (amended): the second tick completes the task at each deadline that
\* has passed, twice, and starts it again after the first completion; it
\* commits the reward of two completions.
C15_CompletedAtEachDeadline ==
  C15_SecondTickDone =>
    /\ result.completed = << ScenarioTask, ScenarioTask >>
    /\ Len(result.started) >= 1
    /\ \A i \in DOMAIN result.started : result.started[i] = ScenarioTask
    /\ mem.tavXpDelta = 2 * CompletedTavXp(<< ScenarioTask >>)
    /\ mem.skillXpDelta = [logging |-> 2]
    /\ mem.inventoryDelta = << << "log", 2 >> >>

C15_Witness ==
  /\ C15_SecondTickDone
  /\ Len(result.completed) = 2
  /\ result.started # << >>

\* C16: the task a tick starts has a per-task priority at least as high as
\* that of every other eligible pending task, whatever the base priorities
\* of their skills.
C16_HigherTaskPriorityFirst ==
  \A k \in JustStarted :
    \A o \in WithStatus(mem.tasks, "pending") :
      canExecute(o, mem.requirementContext) =>
        mem.tasks[o].priority <= mem.tasks[k].priority

\* C17: no step lowers the tav's XP or the XP of a skill.
C17_Step ==
  /\ tavXp' >= tavXp
  /\ \A id \in DOMAIN skills : skills'[id] >= skills[id]

C17_XpNeverDecreases == [][C17_Step]_vars

\* C18: when a tick is given an override context that carries flags, a
\* flag_present requirement on any flag the tav has stored, or the override
\* carries, holds in the context the tick evaluates eligibility in.
C18_OverrideFlagsAreUnioned ==
  (InLoop /\ "flags" \in DOMAIN args.context) =>
    \A f \in tavFlags \cup args.context.flags :
      evaluateRequirements(<< [op |-> "flag_present", flagId |-> f] >>,
                           mem.requirementContext)

\* C19: when a tick is given an override context that carries inventory
\* quantities, then before any completion of the call an item_required
\* requirement for the stored total plus the override's quantity of an item
\* holds in the context the tick evaluates eligibility in.
C19_OverrideInventoryIsAdded ==
  (InLoop /\ "inventory" \in DOMAIN args.context /\ result.completed = << >>) =>
    \A itemId \in ItemIds :
      evaluateRequirements(
        << [op |-> "item_required", itemId |-> itemId,
            quantity |-> Get(getInventoryTotals(inventory), itemId, 0)
                           + Get(args.context.inventory, itemId, 0)] >>,
        mem.requirementContext)

\* C20: every stored stack holds an item the registry knows, at least 1 and
\* at most the item's stack limit of it, at a slot index that is not
\* negative; the inventory table is keyed by slot, so each slot holds one
\* stack.
C20_StacksWithinLimits ==
  \A slot \in DOMAIN inventory :
    /\ slot >= 0
    /\ KnownItem(inventory[slot].itemId)
    /\ inventory[slot].qty > 0
    /\ inventory[slot].qty <= getStackLimitSafe(inventory[slot].itemId)

\* A move has just merged two stacks whose sum exceeds the stack limit and
\* left the excess at the source, with a gap below.
C20_Witness ==
  /\ args.op = "moveInventoryItem"
  /\ outcome = "returned"
  /\ args.fromSlot \in DOMAIN inventory
  /\ args.toSlot \in DOMAIN inventory
  /\ args.fromSlot # args.toSlot
  /\ inventory[args.fromSlot].itemId = inventory[args.toSlot].itemId
  /\ inventory[args.toSlot].qty = getStackLimitSafe(inventory[args.toSlot].itemId)
  /\ \E gap \in 0..MaxSlot : gap \notin DOMAIN inventory /\ gap < args.toSlot

TotalOf(inv, itemId) == Get(getInventoryTotals(inv), itemId, 0)

DeltaOf(deltas, itemId) == EntryGet(deltas, itemId, 0)

BatchItems(deltas) == EntryKeys(deltas) \cup ItemIds

\* C21: a call of applyInventoryDelta, strict or not, whose items are known
\* and which takes no item's total below zero returns, and afterwards each
\* item's total is its total before plus its delta, an item with total zero
\* having no stack; by induction the totals after any such sequence from the
\* empty inventory are the sums of the deltas.
C21_Step ==
  (/\ args'.op = "applyInventoryDelta"
   /\ \A i \in DOMAIN args'.deltas :
        args'.deltas[i][2] # 0 => KnownItem(args'.deltas[i][1])
   /\ \A itemId \in BatchItems(args'.deltas) :
        TotalOf(inventory, itemId) + DeltaOf(args'.deltas, itemId) >= 0) =>
    /\ outcome' = "returned"
    /\ \A itemId \in BatchItems(args'.deltas) :
         /\ TotalOf(inventory', itemId)
              = TotalOf(inventory, itemId) + DeltaOf(args'.deltas, itemId)
         /\ itemId \in DOMAIN getInventoryTotals(inventory')
              <=> TotalOf(inventory', itemId) > 0

C21_TotalsAreSumsOfDeltas == [][C21_Step]_vars

\* A strict call has just removed more of an item than one stack holds and
\* added another item in the same batch.
C21_Witness ==
  /\ args.op = "applyInventoryDelta"
  /\ outcome = "returned"
  /\ args.strict
  /\ \E i, j \in DOMAIN args.deltas :
       /\ KnownItem(args.deltas[i][1])
       /\ args.deltas[i][2] < 0 - getStackLimitSafe(args.deltas[i][1])
       /\ args.deltas[j][2] > 0
       /\ TotalOf(inventory, args.deltas[i][1]) > 0

CeilDiv(a, b) == (a + b - 1) \div b

\* The stacks the quantity qty of an item fills from slot 0.
FilledFromZero(itemId, qty, stackLimit) ==
  [s \in 0..(CeilDiv(qty, stackLimit) - 1) |->
     [itemId |-> itemId,
      qty |-> IF s < qty \div stackLimit THEN stackLimit ELSE qty % stackLimit]]

\* C22: adding a quantity qty > 0 of one known item with stack limit L to the
\* empty inventory leaves exactly ceil(qty / L) stacks, in slots
\* 0 .. ceil(qty / L) - 1, the first floor(qty / L) of them holding L and the
\* last one, if any is left, the remainder.
C22_Step ==
  (/\ args'.op = "applyInventoryDelta"
   /\ inventory = EmptyObject
   /\ Len(args'.deltas) = 1
   /\ KnownItem(args'.deltas[1][1])
   /\ args'.deltas[1][2] > 0) =>
    /\ outcome' = "returned"
    /\ inventory' = FilledFromZero(args'.deltas[1][1], args'.deltas[1][2],
                                   getStackLimitSafe(args'.deltas[1][1]))

C22_AddSplitsIntoStacks == [][C22_Step]_vars

\* More than one stack limit of an item has just been added to the empty
\* inventory: a full stack in slot 0 and the remainder in slot 1.
C22_Witness ==
  /\ args.op = "applyInventoryDelta"
  /\ outcome = "returned"
  /\ Len(args.deltas) = 1
  /\ KnownItem(args.deltas[1][1])
  /\ args.deltas[1][2] > getStackLimitSafe(args.deltas[1][1])
  /\ args.deltas[1][2] % getStackLimitSafe(args.deltas[1][1]) # 0
  /\ inventory = FilledFromZero(args.deltas[1][1], args.deltas[1][2],
                                getStackLimitSafe(args.deltas[1][1]))

\* C23: in strict mode, when an item of the batch would end below zero the
\* call fails with the insufficient-quantity error and the inventory is
\* exactly as before the call, whatever the batch lists before that item.
C23_Step ==
  (/\ args'.op = "applyInventoryDelta"
   /\ args'.strict
   /\ \E i \in DOMAIN args'.deltas :
        TotalOf(inventory, args'.deltas[i][1]) + args'.deltas[i][2] < 0) =>
    /\ outcome' = "Insufficient quantity"
    /\ inventory' = inventory

C23_StrictUnderflowChangesNothing == [][C23_Step]_vars

\* A strict batch whose first item was an addition has just failed on its
\* second item, with stacks in the inventory.
C23_Witness ==
  /\ args.op = "applyInventoryDelta"
  /\ args.strict
  /\ outcome = "Insufficient quantity"
  /\ Len(args.deltas) = 2
  /\ args.deltas[1][2] > 0
  /\ TotalOf(inventory, args.deltas[2][1]) > 0
  /\ TotalOf(inventory, args.deltas[2][1]) + args.deltas[2][2] < 0

\* The step is a call of moveInventoryItem from an occupied slot to another
\* occupied slot.
MoveOntoStack ==
  /\ args'.op = "moveInventoryItem"
  /\ args'.fromSlot # args'.toSlot
  /\ args'.fromSlot \in DOMAIN inventory
  /\ args'.toSlot \in DOMAIN inventory

\* C24: moving a stack of a onto another slot that holds b of the same item
\* leaves min(limit, a + b) at the destination and the excess
\* a + b - min(limit, a + b) at the source; the source slot is empty exactly
\* when the excess is zero.
C24_Step ==
  (/\ MoveOntoStack
   /\ inventory[args'.fromSlot].itemId = inventory[args'.toSlot].itemId) =>
    LET itemId == inventory[args'.fromSlot].itemId
        total == inventory[args'.fromSlot].qty + inventory[args'.toSlot].qty
        merged == Min2(getStackLimitSafe(itemId), total)
    IN  /\ outcome' = "returned"
        /\ args'.toSlot \in DOMAIN inventory'
        /\ inventory'[args'.toSlot] = [itemId |-> itemId, qty |-> merged]
        /\ args'.fromSlot \notin DOMAIN inventory' <=> total - merged = 0
        /\ args'.fromSlot \in DOMAIN inventory' =>
             inventory'[args'.fromSlot]
               = [itemId |-> itemId, qty |-> total - merged]

C24_MergeKeepsExcessAtSource == [][C24_Step]_vars

\* A merge has just filled the destination and left one unit at a source
\* slot below it.
C24_Witness ==
  /\ args.op = "moveInventoryItem"
  /\ outcome = "returned"
  /\ args.fromSlot < args.toSlot
  /\ args.fromSlot \in DOMAIN inventory
  /\ args.toSlot \in DOMAIN inventory
  /\ inventory[args.fromSlot].itemId = inventory[args.toSlot].itemId
  /\ inventory[args.toSlot].qty = getStackLimitSafe(inventory[args.toSlot].itemId)
  /\ inventory[args.fromSlot].qty = 1

\* C25: a call of moveInventoryItem changes nothing but the contents of
\* fromSlot and toSlot; a stack moved to an empty slot is relocated whole,
\* and a stack moved onto a different item changes places with it.
C25_Step ==
  args'.op = "moveInventoryItem" =>
    /\ \A s \in (DOMAIN inventory \cup DOMAIN inventory')
                  \ {args'.fromSlot, args'.toSlot} :
         /\ s \in DOMAIN inventory /\ s \in DOMAIN inventory'
         /\ inventory'[s] = inventory[s]
    /\ (/\ args'.fromSlot \in DOMAIN inventory
        /\ args'.toSlot >= 0
        /\ args'.toSlot \notin DOMAIN inventory) =>
         /\ outcome' = "returned"
         /\ DOMAIN inventory'
              = (DOMAIN inventory \ {args'.fromSlot}) \cup {args'.toSlot}
         /\ inventory'[args'.toSlot] = inventory[args'.fromSlot]
    /\ (/\ MoveOntoStack
        /\ inventory[args'.fromSlot].itemId # inventory[args'.toSlot].itemId) =>
         /\ outcome' = "returned"
         /\ DOMAIN inventory' = DOMAIN inventory
         /\ inventory'[args'.toSlot] = inventory[args'.fromSlot]
         /\ inventory'[args'.fromSlot] = inventory[args'.toSlot]

MaxDelta == 1

Deltas == (0 - MaxDelta)..MaxDelta

EffectFragments ==
  {EmptyObject, [inventory |-> << >>]}
    \cup {[tavXp |-> x] : x \in Deltas}
    \cup {[skillXp |-> x] : x \in Deltas}
    \cup {[tavXp |-> x, skillXp |-> 0 - x] : x \in {0 - MaxDelta, MaxDelta}}
    \cup {[inventory |-> << <<itemId, q>> >>] :
            itemId \in {"log", "plank"}, q \in Deltas}
    \cup {[inventory |-> << <<"log", a>>, <<"plank", b>> >>] :
            a, b \in {0 - MaxDelta, MaxDelta}}
    \cup {[inventory |-> << <<"plank", MaxDelta>>, <<"log", 0>> >>],
          [tavXp |-> MaxDelta, skillXp |-> MaxDelta,
           inventory |-> << <<"log", MaxDelta>>, <<"torch", 0>> >>]}

MergeInit ==
  /\ tavXp = 0
  /\ tavFlags = {}
  /\ updatedAt = 0
  /\ tasks = EmptyObject
  /\ skills = EmptyObject
  /\ inventory = EmptyObject
  /\ callerCtx = NoContext
  /\ pc = "idle"
  /\ args \in {[op |-> "mergeCompletionEffects", effects |-> << a, b, c >>] :
                 a, b, c \in EffectFragments}
  /\ mem = NoMem
  /\ result = emptyResult
  /\ outcome = "none"
  /\ ticks = 0
  /\ peer = NoCall

MergeCompletionEffects ==
  /\ args.op = "mergeCompletionEffects"
  /\ outcome = "none"
  /\ LET a == args.effects[1]
         b == args.effects[2]
         c == args.effects[3]
     IN  mem' = [abc |-> mergeCompletionEffects(<< a, b, c >>),
                 ab |-> mergeCompletionEffects(<< a, b >>),
                 ba |-> mergeCompletionEffects(<< b, a >>),
                 ab_c |-> mergeCompletionEffects(
                            << mergeCompletionEffects(<< a, b >>), c >>),
                 a_bc |-> mergeCompletionEffects(
                            << a, mergeCompletionEffects(<< b, c >>) >>)]
  /\ outcome' = "returned"
  /\ UNCHANGED << tavXp, tavFlags, updatedAt, skills, tasks, inventory,
                  callerCtx, pc, args, result, ticks, peer >>

MergeNext == MergeCompletionEffects

MergeSpec == MergeInit /\ [][MergeNext]_vars

Merged == args.op = "mergeCompletionEffects" /\ outcome = "returned"

\* The sum of a numeric field over the three fragments, absent counting 0.
FieldSum(field) ==
  Get(args.effects[1], field, 0) + Get(args.effects[2], field, 0)
    + Get(args.effects[3], field, 0)

\* The sum of an item's deltas over the three fragments, absent counting 0.
ItemSum(itemId) ==
  EntryGet(Get(args.effects[1], "inventory", << >>), itemId, 0)
    + EntryGet(Get(args.effects[2], "inventory", << >>), itemId, 0)
    + EntryGet(Get(args.effects[3], "inventory", << >>), itemId, 0)

FragmentItems ==
  UNION {EntryKeys(Get(args.effects[i], "inventory", << >>)) : i \in 1..3}

NoRepeatedKey(entries) ==
  \A i, j \in DOMAIN entries : entries[i][1] = entries[j][1] => i = j

\* C26: the merge of the fragments holds, for tav XP, skill XP and each
\* item, the sum of that field over the fragments, absent fragments and
\* fields counting zero; a field or item is present exactly when its sum is
\* not zero, and the result is the null effect when every sum is zero.
C26_MergeIsSumWithoutZeros ==
  Merged =>
    LET merged == mem.abc
        items == Get(merged, "inventory", << >>)
    IN  /\ DOMAIN merged \subseteq {"tavXp", "skillXp", "inventory"}
        /\ \A field \in {"tavXp", "skillXp"} :
             /\ Get(merged, field, 0) = FieldSum(field)
             /\ field \in DOMAIN merged <=> FieldSum(field) # 0
        /\ NoRepeatedKey(items)
        /\ EntryKeys(items) \subseteq FragmentItems
        /\ \A itemId \in FragmentItems :
             /\ EntryGet(items, itemId, 0) = ItemSum(itemId)
             /\ itemId \in EntryKeys(items) <=> ItemSum(itemId) # 0
        /\ "inventory" \in DOMAIN merged
             <=> \E itemId \in FragmentItems : ItemSum(itemId) # 0
        /\ merged = EmptyObject
             <=> /\ FieldSum("tavXp") = 0
                 /\ FieldSum("skillXp") = 0
                 /\ \A itemId \in FragmentItems : ItemSum(itemId) = 0

\* Fragments with opposite deltas of one item and a further item have been
\* merged: the first item has gone, the other one is kept.
C26_Witness ==
  /\ Merged
  /\ \E itemId \in FragmentItems :
       /\ EntryGet(Get(args.effects[1], "inventory", << >>), itemId, 0) > 0
       /\ EntryGet(Get(args.effects[2], "inventory", << >>), itemId, 0) < 0
       /\ ItemSum(itemId) = 0
  /\ "inventory" \in DOMAIN mem.abc
  /\ "tavXp" \notin DOMAIN mem.abc
  /\ "tavXp" \in DOMAIN args.effects[3]

\* Two effects are the same object: the same fields with the same numbers,
\* and the same items with the same deltas, whatever the order of the items.
SameEffect(x, y) ==
  /\ DOMAIN x = DOMAIN y
  /\ \A field \in DOMAIN x \ {"inventory"} : x[field] = y[field]
  /\ LET xs == Get(x, "inventory", << >>)
         ys == Get(y, "inventory", << >>)
     IN  /\ NoRepeatedKey(xs) /\ NoRepeatedKey(ys)
         /\ EntryKeys(xs) = EntryKeys(ys)
         /\ \A itemId \in EntryKeys(xs) :
              EntryGet(xs, itemId, 0) = EntryGet(ys, itemId, 0)

NoZeroEntry(effect) ==
  /\ \A field \in DOMAIN effect \ {"inventory"} : effect[field] # 0
  /\ "inventory" \in DOMAIN effect =>
       /\ effect.inventory # << >>
       /\ \A i \in DOMAIN effect.inventory : effect.inventory[i][2] # 0

\* C27: for all fragments a, b, c, the null fragment included,
\* merge(a, b) = merge(b, a) and
\* merge(merge(a, b), c) = merge(a, merge(b, c)) = merge(a, b, c), and no
\* merged effect holds a field or an item entry equal to zero.
C27_MergeCommutesAndAssociates ==
  Merged =>
    /\ SameEffect(mem.ab, mem.ba)
    /\ SameEffect(mem.ab_c, mem.a_bc)
    /\ SameEffect(mem.a_bc, mem.abc)
    /\ \A k \in DOMAIN mem : NoZeroEntry(mem[k])

\* Three fragments that share an item have been merged, the first two
\* cancelling each other's tav XP or item, and the result is not null.
C27_Witness ==
  /\ Merged
  /\ mem.ab = EmptyObject
  /\ args.effects[1] # EmptyObject
  /\ \E itemId \in FragmentItems :
       /\ \A i \in 1..3 :
            EntryGet(Get(args.effects[i], "inventory", << >>), itemId, 0) # 0
       /\ EntryGet(Get(mem.abc, "inventory", << >>), itemId, 0) # 0
  /\ mem.ab_c = mem.abc

\* C28: when addTask rejects its input, for whatever reason, nothing is
\* persisted: the task rows and the skill-progress rows are as before.
C28_Step ==
  (args'.op = "addTask" /\ outcome' # "returned") =>
    UNCHANGED << tasks, skills >>

C28_RejectedAddTaskPersistsNothing == [][C28_Step]_vars

(***************************************************************************)
(* evaluateRequirements as a function of a requirement list and a context: *)
(* the initial state draws both, the call evaluates.                       *)
(***************************************************************************)
AndOf(requirements) == [op |-> "and", requirements |-> requirements]
OrOf(requirements) == [op |-> "or", requirements |-> requirements]
NotOf(requirement) == [op |-> "not", requirement |-> requirement]
Custom(name) == [op |-> "custom", name |-> name]
FlagPresent(flagId) == [op |-> "flag_present", flagId |-> flagId]

RequirementInputs ==
  { << >>,
    << AndOf(<< >>) >>,
    << OrOf(<< >>) >>,
    << NotOf(AndOf(<< >>)) >>,
    << NotOf(OrOf(<< >>)) >>,
    << AndOf(<< OrOf(<< >>) >>) >>,
    << OrOf(<< AndOf(<< >>) >>) >>,
    << Custom("idle_allowed") >>,
    << NotOf(Custom("idle_allowed")) >>,
    << FlagPresent("scout_ready") >>,
    << OrOf(<< Custom("idle_allowed"), FlagPresent("scout_ready") >>) >>,
    << AndOf(<< Custom("idle_allowed"), FlagPresent("scout_ready") >>) >>,
    << Custom("idle_allowed"), OrOf(<< >>) >> }

EvalContexts ==
  LET CustomCheckInputs ==
        {EmptyObject,
         [customChecks |-> EmptyObject],
         [customChecks |-> [idle_allowed |-> BooleanCheck(TRUE)]],
         [customChecks |-> [idle_allowed |-> BooleanCheck(FALSE)]],
         [customChecks |-> [idle_allowed |-> FlagPredicate("scout_ready")]],
         [customChecks |-> [other_check |-> BooleanCheck(TRUE)]]}
      ResolverInputs ==
        {EmptyObject,
         [resolveCustom |-> EmptyObject],
         [resolveCustom |-> [idle_allowed |-> TRUE]],
         [resolveCustom |-> [idle_allowed |-> FALSE]],
         [resolveCustom |-> [other_check |-> TRUE]]}
      FlagInputs == {EmptyObject, [flags |-> {}], [flags |-> {"scout_ready"}]}
  IN  {Spread(Spread(checks, resolver), flags) :
         checks \in CustomCheckInputs, resolver \in ResolverInputs,
         flags \in FlagInputs}

EvalInit ==
  /\ tavXp = 0
  /\ tavFlags = {}
  /\ updatedAt = 0
  /\ tasks = EmptyObject
  /\ skills = EmptyObject
  /\ inventory = EmptyObject
  /\ callerCtx = NoContext
  /\ pc = "idle"
  /\ args \in {[op |-> "evaluateRequirements", requirements |-> requirements,
                context |-> context] :
                 requirements \in RequirementInputs, context \in EvalContexts}
  /\ mem = NoMem
  /\ result = emptyResult
  /\ outcome = "none"
  /\ ticks = 0
  /\ peer = NoCall

EvaluateRequirements ==
  /\ args.op = "evaluateRequirements"
  /\ outcome = "none"
  /\ mem' = [value |-> evaluateRequirements(args.requirements, args.context)]
  /\ outcome' = "returned"
  /\ UNCHANGED << tavXp, tavFlags, updatedAt, skills, tasks, inventory,
                  callerCtx, pc, args, result, ticks, peer >>

EvalNext == EvaluateRequirements

EvalSpec == EvalInit /\ [][EvalNext]_vars

Evaluated == args.op = "evaluateRequirements" /\ outcome = "returned"

\* C29: in every context the empty requirement list and the conjunction of
\* no requirements are satisfied, and the disjunction of no requirements is
\* not.
C29_EmptyListsEvaluate ==
  Evaluated =>
    /\ args.requirements = << >> => mem.value
    /\ args.requirements = << AndOf(<< >>) >> => mem.value
    /\ args.requirements = << OrOf(<< >>) >> => ~ mem.value

\* The disjunction of no requirements has been evaluated, to false, in a
\* context that has flags and custom checks.
C29_Witness ==
  /\ Evaluated
  /\ args.requirements = << OrOf(<< >>) >>
  /\ ~ mem.value
  /\ {"flags", "customChecks"} \subseteq DOMAIN args.context

\* What the override map and the fallback resolver of a context say of a
\* custom check: the map's entry when it has one, else the resolver's answer
\* when it gives one, else false.
CustomAnswer(name, context) ==
  LET checks == Get(context, "customChecks", EmptyObject)
      resolver == Get(context, "resolveCustom", EmptyObject)
  IN  IF name \in DOMAIN checks
      THEN IF checks[name].kind = "boolean" THEN checks[name].value
           ELSE checks[name].flagId \in Get(context, "flags", {})
      ELSE IF name \in DOMAIN resolver THEN resolver[name]
      ELSE FALSE

\* C30: a custom requirement is decided by the override map when the map has
\* an entry for its name, a boolean as it is and a predicate by its value on
\* the context; by the fallback resolver only when the map has no entry; and
\* is false when neither yields a boolean.
C30_CustomOverrideThenResolver ==
  Evaluated =>
    /\ args.requirements = << Custom("idle_allowed") >> =>
         mem.value = CustomAnswer("idle_allowed", args.context)
    /\ args.requirements = << NotOf(Custom("idle_allowed")) >> =>
         mem.value = ~ CustomAnswer("idle_allowed", args.context)

\* A custom requirement has been evaluated to false by the override map
\* although the fallback resolver would have answered true.
C30_Witness ==
  /\ Evaluated
  /\ args.requirements = << Custom("idle_allowed") >>
  /\ "customChecks" \in DOMAIN args.context
  /\ "idle_allowed" \in DOMAIN args.context.customChecks
  /\ "resolveCustom" \in DOMAIN args.context
  /\ "idle_allowed" \in DOMAIN args.context.resolveCustom
  /\ args.context.resolveCustom.idle_allowed
  /\ ~ mem.value

\* The items a batch names with a delta other than zero.
NamedItems(deltas) == {deltas[i][1] : i \in {j \in DOMAIN deltas : deltas[j][2] # 0}}

AllDeltas(deltas, sign) ==
  /\ NamedItems(deltas) # {}
  /\ \A i \in DOMAIN deltas : deltas[i][2] # 0 => deltas[i][2] * sign > 0

\* C31: a call of applyInventoryDelta moves no stack to another slot.  The
\* stacks of the items the batch does not name are untouched; a batch of
\* removals leaves every remaining stack in its slot, the emptied slots
\* staying free; a batch of additions leaves every stack in its slot and puts
\* each new stack at the smallest slot index that is free.
C31_Step ==
  args'.op = "applyInventoryDelta" =>
    /\ \A s \in DOMAIN inventory :
         inventory[s].itemId \notin NamedItems(args'.deltas) =>
           s \in DOMAIN inventory' /\ inventory'[s] = inventory[s]
    /\ (outcome' = "returned" /\ AllDeltas(args'.deltas, -1)) =>
         /\ DOMAIN inventory' \subseteq DOMAIN inventory
         /\ \A s \in DOMAIN inventory' :
              /\ inventory'[s].itemId = inventory[s].itemId
              /\ inventory'[s].qty <= inventory[s].qty
    /\ (outcome' = "returned" /\ AllDeltas(args'.deltas, 1)) =>
         /\ DOMAIN inventory \subseteq DOMAIN inventory'
         /\ \A s \in DOMAIN inventory :
              /\ inventory'[s].itemId = inventory[s].itemId
              /\ inventory'[s].qty >= inventory[s].qty
         /\ \A s \in DOMAIN inventory' \ DOMAIN inventory :
              \A t \in 0..(s - 1) : t \in DOMAIN inventory'

C32_Step ==
  (/\ args'.op = "applyInventoryDelta"
   /\ AllDeltas(args'.deltas, 1)
   /\ \A itemId \in NamedItems(args'.deltas) : KnownItem(itemId)) =>
    /\ outcome' = "returned"
    /\ \A itemId \in NamedItems(args'.deltas) :
         LET stackLimit == getStackLimitSafe(itemId)
             had == ItemSlots(inventory, itemId)
             opened == ItemSlots(inventory', itemId) \ DOMAIN inventory
         IN  /\ had \subseteq ItemSlots(inventory', itemId)
             /\ \A s \in had :
                  /\ inventory'[s].qty >= inventory[s].qty
                  /\ inventory[s].qty <= stackLimit =>
                       inventory'[s].qty <= stackLimit
             /\ \A s, t \in had :
                  (s < t /\ inventory'[t].qty > inventory[t].qty) =>
                    inventory'[s].qty >= stackLimit
             /\ opened # {} => \A s \in had : inventory'[s].qty >= stackLimit
             /\ \A s \in opened :
                  /\ inventory'[s].qty >= 1
                  /\ inventory'[s].qty <= stackLimit
                  /\ \A t \in 0..(s - 1) : t \in DOMAIN inventory'
             /\ TotalOf(inventory', itemId)
                  = TotalOf(inventory, itemId) + DeltaOf(args'.deltas, itemId)

C32_AddTopsUpThenOpens == [][C32_Step]_vars

\* An addition has just filled the item's stack, opened a new stack in a
\* free slot below another item's stack, and left that stack where it was.
C32_Witness ==
  /\ args.op = "applyInventoryDelta"
  /\ outcome = "returned"
  /\ Len(args.deltas) = 1
  /\ args.deltas[1][2] = 2
  /\ DOMAIN inventory = {0, 1, 2}
  /\ inventory[0] = [itemId |-> args.deltas[1][1], qty |-> 2]
  /\ inventory[1] = [itemId |-> args.deltas[1][1], qty |-> 1]
  /\ inventory[2].itemId # args.deltas[1][1]

QtyAt(inv, s) == IF s \in DOMAIN inv THEN inv[s].qty ELSE 0

Max2(a, b) == IF a >= b THEN a ELSE b

\* C33: a batch of removals takes each item from its stack at the highest
\* slot first: a stack of the item is reduced only when every stack of the
\* item above it has been removed, a stack is deleted exactly when nothing
\* of it is left, and what is taken is the delta, or all there is when the
\* call is not strict.
C33_Step ==
  (/\ args'.op = "applyInventoryDelta"
   /\ outcome' = "returned"
   /\ AllDeltas(args'.deltas, -1)) =>
    \A itemId \in NamedItems(args'.deltas) :
      LET had == ItemSlots(inventory, itemId)
      IN  /\ ItemSlots(inventory', itemId) \subseteq had
          /\ \A s \in had :
               /\ QtyAt(inventory', s) <= inventory[s].qty
               /\ s \in DOMAIN inventory' =>
                    /\ inventory'[s].itemId = itemId
                    /\ inventory'[s].qty >= 1
          /\ \A s, t \in had :
               (s < t /\ QtyAt(inventory', s) < inventory[s].qty) =>
                 t \notin DOMAIN inventory'
          /\ TotalOf(inventory', itemId)
               = Max2(0, TotalOf(inventory, itemId)
                           + DeltaOf(args'.deltas, itemId))

C33_RemoveDrainsHighestFirst == [][C33_Step]_vars

\* A strict removal larger than any stack has just returned, leaving one
\* unit of the item in the only stack of it that remains.
C33_Witness ==
  /\ args.op = "applyInventoryDelta"
  /\ outcome = "returned"
  /\ args.strict
  /\ Len(args.deltas) = 1
  /\ args.deltas[1][2] = 0 - MaxQty
  /\ \E s \in DOMAIN inventory :
       /\ inventory[s] = [itemId |-> args.deltas[1][1], qty |-> 1]
       /\ ItemSlots(inventory, args.deltas[1][1]) = {s}

\* C34: a call of moveInventoryItem with valid slots and an occupied source
\* leaves the total of every item as it was, also when fromSlot = toSlot.
C34_Step ==
  (/\ args'.op = "moveInventoryItem"
   /\ args'.fromSlot >= 0
   /\ args'.toSlot >= 0
   /\ args'.fromSlot \in DOMAIN inventory) =>
    getInventoryTotals(inventory') = getInventoryTotals(inventory)

C34_MoveKeepsTotals == [][C34_Step]_vars

CountExecuting(rows) == Cardinality(WithStatus(rows, "executing"))

\* Started minus completed minus failed events of the call so far.
EventBalance(r) == Len(r.started) - Len(r.completed) - Len(r.failed)

\* C35: within a tick call a task is started only when the events so far
\* leave nothing executing and completed only when they leave one executing,
\* so the started and completed events alternate; the snapshot always holds
\* the number of executing tasks stored before the call plus |started|
\* minus |completed| minus |failed|, and so do the stored rows after the
\* commit.  With nothing executing before the call,
\* 0 <= |started| - |completed| <= 1, and a task is left executing exactly
\* when the difference is 1.
C35_Step ==
  /\ (pc = "loop" /\ Len(result'.started) > Len(result.started)) =>
       /\ CountExecuting(tasks) + EventBalance(result) = 0
       /\ Len(result'.started) = Len(result.started) + 1
       /\ result'.completed = result.completed
  /\ (pc = "loop" /\ Len(result'.completed) > Len(result.completed)) =>
       /\ CountExecuting(tasks) + EventBalance(result) = 1
       /\ Len(result'.completed) = Len(result.completed) + 1
       /\ result'.started = result.started
  /\ pc' \in {"loop", "commit"} =>
       CountExecuting(mem'.tasks)
         = CountExecuting(tasks') + EventBalance(result')
  /\ (pc = "commit" /\ pc' = "done" /\ outcome' = "returned") =>
       /\ CountExecuting(tasks')
            = CountExecuting(tasks) + EventBalance(result)
       /\ CountExecuting(tasks) = 0 =>
            /\ Len(result.failed) = 0
            /\ Len(result.started) - Len(result.completed) \in {0, 1}
            /\ CountExecuting(tasks') = 1
                 <=> Len(result.started) - Len(result.completed) = 1

C35_EventsAlternate == [][C35_Step]_vars

\* A committed tick has started a task, completed it and started a task
\* again, which is left executing.
C35_Witness ==
  /\ pc = "done"
  /\ args.op = "tick"
  /\ outcome = "returned"
  /\ Len(result.started) = 2
  /\ Len(result.completed) = 1
  /\ CountExecuting(tasks) = 1

\* The stored rows are one pending task of a skill whose requirements read
\* nothing its completions change, and the task is eligible.
OnlyTaskAlwaysEligible(key) ==
  /\ DOMAIN tasks = {key}
  /\ tasks[key].status = "pending"
  /\ key \in {<< "logging", "small_tree" >>, << "idle", TASK_TARGETLESS_KEY >>}
  /\ canExecute(key, mem.requirementContext)

\* The cursor a tick call starts from.
CallCursor ==
  IF args.lastTickAt # Null THEN args.lastTickAt
  ELSE IF updatedAt # Null THEN updatedAt ELSE args.now

\* C36: when the actor's only task is pending and always eligible and the
\* call's cursor c is not later than now n, the tick reports exactly
\* min(MAX_LOOP_LIMIT, floor((n - c) / D)) completions, D being the skill's
\* duration; the first start is stamped with c and each restart with the
\* deadline of the completion before it.
C36_Step ==
  \A key \in DOMAIN tasks :
    (/\ pc \in {"loop", "commit"}
     /\ OnlyTaskAlwaysEligible(key)
     /\ CallCursor <= args.now) =>
      LET D == getSkillDefinition(key[1]).duration
      IN  /\ (pc = "commit" /\ pc' = "done") =>
               /\ outcome' = "returned"
               /\ Len(result.completed)
                    = Min2(MAX_LOOP_LIMIT, (args.now - CallCursor) \div D)
               /\ \A i \in DOMAIN result.completed : result.completed[i] = key
          /\ Len(result'.started) > Len(result.started) =>
               mem'.tasks[key].startedAt
                 = CallCursor + Len(result.completed) * D

C36_CompletionsFillTheWindow == [][C36_Step]_vars

\* A committed tick of the only task has reported as many completions as
\* the cap allows although the window had room for more.
C36_Witness ==
  /\ pc = "done"
  /\ args.op = "tick"
  /\ outcome = "returned"
  /\ DOMAIN tasks = {<< "logging", "small_tree" >>}
  /\ Len(result.completed) = MAX_LOOP_LIMIT
  /\ Len(result.started) = MAX_LOOP_LIMIT
  /\ args.now = MaxTime
  /\ tavXp = MAX_LOOP_LIMIT

\* C37: a tick whose cursor is not later than now and which returns before
\* the completion cap is reached leaves either one task executing whose
\* deadline is later than now, or no pending task that can execute in the
\* final requirement context.
C37_Step ==
  (/\ pc = "commit" /\ pc' = "done"
   /\ outcome' = "returned"
   /\ CallCursor <= args.now
   /\ Len(result.completed) < MAX_LOOP_LIMIT) =>
    \/ \E key \in WithStatus(tasks', "executing") :
         /\ CountExecuting(tasks') = 1
         /\ tasks'[key].startedAt + getSkillDefinition(key[1]).duration
              > args.now
    \/ /\ CountExecuting(tasks') = 0
       /\ \A key \in WithStatus(tasks', "pending") :
            ~ canExecute(key, mem.requirementContext)

C37_WorkConserving == [][C37_Step]_vars

\* A committed tick has completed a task once, below the cap, and left the
\* actor idle with pending tasks, none of them eligible any more.
C37_Witness ==
  /\ pc = "done"
  /\ args.op = "tick"
  /\ outcome = "returned"
  /\ Len(result.completed) = 1
  /\ Len(result.started) = 1
  /\ CountExecuting(tasks) = 0
  /\ WithStatus(tasks, "pending") # {}

\* C38: the stored last-tick marker never moves backwards: no step, and in
\* particular no committed tick, whatever its now and lastTickAt, leaves a
\* marker earlier than the one stored before.
C38_Step == updatedAt' >= updatedAt

C38_MarkerNeverMovesBack == [][C38_Step]_vars

\* C39: a tick leaves the override context object the caller supplied as
\* it was passed: its inventory map and its skill-level map hold the values
\* they held at the call, whatever the completions of the call granted.
C39_CallerContextUntouched ==
  args.op = "tick" => callerCtx = args.context

TavLevelMin(level) == [op |-> "tav_level_min", level |-> level]

\* C40: merging an override that sets no tavLevel into the actor's base
\* context keeps the base context's tavLevel: every tav_level_min
\* requirement evaluates on the merged context as it does on the base
\* context.
C40_MergeKeepsTavLevel ==
  \A override \in ContextChoices :
    "tavLevel" \notin DOMAIN override =>
      \A level \in 1..Len(TAV_LEVEL_THRESHOLDS) :
        evaluateRequirements(
          << TavLevelMin(level) >>,
          mergeRequirementContexts(buildRequirementContext, override))
        = evaluateRequirements(<< TavLevelMin(level) >>,
                               buildRequirementContext)

====
